---- MODULE Spec2Model ----
(***************************************************************************)
(* Model of the Siril script synthesizer of osc-multi-night-stacking-1.1   *)
(* (SirilCommandBuilder.build): a Project is compiled, session by session, *)
(* into the list L of directives of a Siril script.                        *)
(*                                                                         *)
(* A path is a sequence of components; an absolute path starts with "/".   *)
(* A directive is a record [op, args, opts]: args is the sequence of its   *)
(* positional arguments (each a path), opts the sequence of its -key=value *)
(* options as <<key, value>> pairs (value <<>> for a bare flag).           *)
(***************************************************************************)
EXTENDS Integers, Sequences, FiniteSets, TLC

VARIABLES p, disk, pc, i, L, comp_state, want_final_fz, pp_seqs, any_session,
          produced_flat, mode, pack_thresh, per_session_lights, total_lights,
          force_pack_lights, eff_bias, eff_dark, eff_df,
          will_build_bias_master, will_build_dark_master, will_build_df_master,
          did_make_pp_flat, base_dir,
          proc, ignores, signalled, written, stdout, returncode,
          _proc, btn_run_siril, btn_abort, runs,
          rd, _stop, buf, lf, queue, gui, idx,
          read, sent, forwarded, cancelled,
          _reader, btn_prepare, btn_build_script,
          connected, pcts, report, viewer, artifact, progress,
          now, maybe_emit, _last_pct, _last_emit,
          orphans, strays, late_read, updates, esc, stale, age, opens, footer,
          _dirty, was_dirty, unsaved,
          doc, saved, loaded, ed, currentRow, _loading_session, assigned

packVars == <<mode, pack_thresh, per_session_lights, total_lights, force_pack_lights>>
sessVars == <<eff_bias, eff_dark, eff_df, will_build_bias_master,
              will_build_dark_master, will_build_df_master, did_make_pp_flat>>
procVars == <<proc, ignores, signalled, written, stdout, returncode>>
widgetVars == <<_proc, _reader, btn_run_siril, btn_abort, btn_prepare,
                btn_build_script, runs>>
readerVars == <<rd, _stop, buf, lf>>
guiVars == <<queue, gui, idx>>
historyVars == <<read, sent, forwarded, cancelled>>
envVars == <<connected, pcts>>
dirtyVars == <<_dirty, was_dirty, unsaved>>
reportVars == <<report, viewer, artifact, progress>>
throttleVars == <<now, maybe_emit, _last_pct, _last_emit>>
strayVars == <<orphans, strays>>
logVars == <<opens, footer>>
escVars == <<esc, stale>>
auditVars == <<late_read, updates, escVars, age>>
restVars == <<envVars, dirtyVars, reportVars, throttleVars, strayVars, logVars, auditVars>>
docVars == <<doc, saved, loaded>>
editVars == <<ed, currentRow, _loading_session, assigned>>
deskVars == <<docVars, editVars>>
runVars == <<procVars, widgetVars, readerVars, guiVars, historyVars, restVars>>
buildVars == <<disk, pc, i, L, comp_state, want_final_fz, pp_seqs, any_session,
               produced_flat, packVars, sessVars, base_dir>>
harnessVars == <<runVars, deskVars>>
builderVars == <<p, buildVars, deskVars>>
vars == <<builderVars, harnessVars>>

(***************************************************************************)
(* Bounds of the explored project family.                                  *)
(***************************************************************************)
MaxSessions == 2
MaxLightFiles == 2

(***************************************************************************)
(* Paths and directives.                                                   *)
(***************************************************************************)
None == <<>>

Truthy(x) == Len(x) > 0

RECURSIVE Normalize(_)
Normalize(path) ==
    IF path = <<>> THEN <<>>
    ELSE LET init == Normalize(SubSeq(path, 1, Len(path) - 1))
             c    == path[Len(path)]
         IN  IF c = "." THEN init
             ELSE IF c = ".." THEN
                  IF Len(init) > 1 THEN SubSeq(init, 1, Len(init) - 1) ELSE init
             ELSE Append(init, c)

siril_arg(path) == SelectSeq(path, LAMBDA c : c # ".")

Cmd(op, args, opts) == [op |-> op, args |-> args, opts |-> opts]

Comment(text) == Cmd("#", <<<<text>>>>, <<>>)

Blank == Cmd("", <<>>, <<>>)

Cd(path) == Cmd("cd", <<path>>, <<>>)

Flag(k) == <<k, <<>>>>

HasOpt(d, k) == \E j \in 1..Len(d.opts) : d.opts[j][1] = k

OptVal(d, k) == d.opts[CHOOSE j \in 1..Len(d.opts) : d.opts[j][1] = k][2]

(***************************************************************************)
(* Data model: Session and Project.  A frame list is a sequence of file    *)
(* names; a master override is a path, None when unset.                    *)
(***************************************************************************)
FrameLists == {<<>>, <<"f1.fit">>}

MasterOf(kind) == {None, <<"lib", ".", kind \o ".fit">>}

SessionName(k) == "s" \o ToString(k)

Session(name, lights, bias, darks, flats, dark_flats, master_bias, master_dark, master_flat, master_dark_flat, work_subdir) ==
    [name |-> name, lights |-> lights, bias |-> bias, darks |-> darks,
     flats |-> flats, dark_flats |-> dark_flats,
     master_bias |-> master_bias, master_dark |-> master_dark,
     master_flat |-> master_flat, master_dark_flat |-> master_dark_flat,
     work_subdir |-> work_subdir]

Project ==
    [name |-> <<"U", "n", "t", "i", "t", "l", "e", "d", " ", "P", "r", "o", "j", "e", "c", "t">>,
     project_file |-> None,
     working_dir |-> None,
     use_master_library |-> TRUE,
     siril_cli_path |-> None,
     drizzle_enabled |-> FALSE,
     drizzle_scaling |-> "1",
     drizzle_pixfrac |-> "1",
     drizzle_kernel |-> "square",
     two_pass |-> FALSE,
     compress_intermediates |-> FALSE,
     stack_32bit |-> FALSE,
     stack_method |-> "rej",
     reject_sigma_low |-> 3,
     reject_sigma_high |-> 3,
     pack_sequences_mode |-> "off",
     pack_threshold |-> 2000,
     sessions |-> <<>>]

WorkingDir == <<"/", "w">>

(***************************************************************************)
(* The explored inputs: a project together with the number of light files  *)
(* found on disk in each session's lights directory.                       *)
(***************************************************************************)
PlainSession(k, lights, flats) ==
    Session(SessionName(k), lights, <<>>, <<>>, flats, <<>>, None, None, None, None, None)

TopoShapes == FrameLists \X FrameLists

TopoSessions ==
    UNION {{[k \in 1..n |-> PlainSession(k, f[k][1], f[k][2])] : f \in [1..n -> TopoShapes]}
           : n \in 0..MaxSessions}

TopoProjects ==
    {[Project EXCEPT !.working_dir = WorkingDir,
                     !.use_master_library = lib, !.drizzle_enabled = dz,
                     !.two_pass = tp, !.compress_intermediates = cz,
                     !.sessions = ss]
       : lib \in BOOLEAN, dz \in BOOLEAN, tp \in BOOLEAN, cz \in BOOLEAN,
         ss \in TopoSessions}

CalSession(k) ==
    {Session(SessionName(k), <<"f1.fit">>, b, d, f, df, mb, md, mf, mdf, None)
       : b \in FrameLists, d \in FrameLists, f \in FrameLists, df \in FrameLists,
         mb \in MasterOf("bias"), md \in MasterOf("dark"),
         mf \in MasterOf("flat"), mdf \in MasterOf("darkflat")}

CalSessions ==
    UNION {UNION {{[k \in 1..n |-> IF k = j THEN s
                                   ELSE PlainSession(k, <<"f1.fit">>, <<>>)]
                     : s \in CalSession(j)} : j \in 1..n}
           : n \in 1..MaxSessions}

CalProjects ==
    {[Project EXCEPT !.working_dir = WorkingDir,
                     !.use_master_library = lib, !.drizzle_enabled = dz,
                     !.sessions = ss]
       : lib \in BOOLEAN, dz \in BOOLEAN, ss \in CalSessions}

DiskOf(proj) == [k \in 1..Len(proj.sessions) |-> Len(proj.sessions[k].lights)]

PackDisks == UNION {[1..n -> 0..MaxLightFiles] : n \in 0..MaxSessions}

PackInputs ==
    {<<[Project EXCEPT !.working_dir = WorkingDir,
                       !.pack_sequences_mode = m, !.pack_threshold = t,
                       !.sessions = [k \in 1..Len(d) |->
                                       PlainSession(k, <<"f1.fit">>, <<>>)]], d>>
       : m \in {"off", "fitseq", "ser", "auto", "Auto", ""},
         t \in 1..MaxLightFiles, d \in PackDisks}

ProjectNames ==
    {<<"M", "3", "1">>, <<" ", "N", "G", "C", " ", "7", "0", "0", "0", "!", " ">>,
     <<"a", "/", "_", "_", "b">>, <<"_", "#", "?">>, <<>>}

WorkSubdirs == {None, <<"night1">>, <<"2024", "night1">>}

MiscProjects ==
    {[Project EXCEPT !.working_dir = WorkingDir, !.name = nm,
                     !.stack_method = sm, !.stack_32bit = b32,
                     !.reject_sigma_low = lo, !.compress_intermediates = cz,
                     !.sessions = [k \in 1..n |->
                        Session(SessionName(k), <<"f1.fit">>, <<>>, <<>>, <<>>, <<>>,
                                None, None, None, None, IF k = 1 THEN sub ELSE None)]]
       : nm \in ProjectNames, sm \in {"rej", "wrej", "mean", "Mean", "median", ""},
         b32 \in BOOLEAN, lo \in {0, 2}, cz \in BOOLEAN, sub \in WorkSubdirs,
         n \in 1..MaxSessions}

Unconfigured == {[Project EXCEPT !.working_dir = None]}

Empty == {[Project EXCEPT !.working_dir = WorkingDir]}

TopoInputs == {<<q, DiskOf(q)>> : q \in TopoProjects \cup Unconfigured}

CalInputs == {<<q, DiskOf(q)>> : q \in CalProjects \cup Unconfigured \cup Empty}

MiscInputs == {<<q, DiskOf(q)>> : q \in MiscProjects \cup Unconfigured \cup Empty}

(***************************************************************************)
(* SirilCommandBuilder helpers.                                            *)
(***************************************************************************)
Lower(m) ==
    CASE m = "REJ"  -> "rej"
      [] m = "WRej" -> "wrej"
      [] m = "Mean" -> "mean"
      [] m = "Auto" -> "auto"
      [] m = "SER"  -> "ser"
      [] OTHER      -> m

OrDefault(x, dflt) == IF x = 0 THEN dflt ELSE x

_stack_cmd(proj, seq_name, norm, out, rgb_equal, output_norm, nonorm, use_32b) ==
    LET m  == Lower(IF proj.stack_method = "" THEN "rej" ELSE proj.stack_method)
        lo == ToString(OrDefault(proj.reject_sigma_low, 3))
        hi == ToString(OrDefault(proj.reject_sigma_high, 3))
        method_args ==
            IF m \in {"rej", "wrej"} THEN <<<<m>>, <<lo>>, <<hi>>>>
            ELSE IF m = "mean" THEN <<<<"mean">>>>
            ELSE <<<<"rej">>, <<lo>>, <<hi>>>>
        opts ==
            (IF nonorm THEN <<Flag("nonorm")>> ELSE <<<<"norm", <<norm>>>>>>)
            \o (IF output_norm THEN <<Flag("output_norm")>> ELSE <<>>)
            \o (IF rgb_equal THEN <<Flag("rgb_equal")>> ELSE <<>>)
            \o (IF use_32b THEN <<Flag("32b")>> ELSE <<>>)
    IN  Cmd("stack", <<<<seq_name>>>> \o method_args, Append(opts, <<"out", <<out>>>>))

MasterStack(proj, seq_name, out) ==
    _stack_cmd(proj, seq_name, "none", out, FALSE, FALSE, TRUE, FALSE)

FlatStack(proj) ==
    _stack_cmd(proj, "pp_flat", "mul", "pp_flat_stacked", FALSE, FALSE, FALSE, FALSE)

FinalStack(proj, seq_name) ==
    _stack_cmd(proj, seq_name, "addscale", "final_stacked", TRUE, TRUE, FALSE,
               proj.stack_32bit)

\* the script under construction together with the tracked compression state
Script(lines, state) == [L |-> lines, comp_state |-> state]

Emit(st, d) == [st EXCEPT !.L = Append(st.L, d)]

\* set_comp that updates the tracked state but forgets to emit the directive
set_comp_silent(st, val) ==
    IF st.comp_state # val THEN Script(st.L, val) ELSE st

\* set_comp without the no-op suppression
set_comp_always(st, val) ==
    Script(Append(st.L, Cmd("setcompress", <<<<ToString(val)>>>>, <<>>)), val)

set_comp(st, val) ==
    IF st.comp_state # val
    THEN Script(Append(st.L, Cmd("setcompress", <<<<ToString(val)>>>>, <<>>)), val)
    ELSE st

\* a weighting-flat argument that prefers the per-session master to the built flat
_drizzle_flat_arg_master_first(proj, sess, produced) ==
    IF Truthy(sess.master_flat) THEN <<<<"flat", siril_arg(sess.master_flat)>>>>
    ELSE IF produced THEN <<<<"flat", <<"pp_flat_stacked">>>>>>
    ELSE IF proj.use_master_library THEN <<<<"flat", <<"$defflat">>>>>>
    ELSE <<>>

\* a weighting-flat argument that ignores the shared library
_drizzle_flat_arg_no_library(proj, sess, produced) ==
    IF produced THEN <<<<"flat", <<"pp_flat_stacked">>>>>>
    ELSE IF Truthy(sess.master_flat) THEN <<<<"flat", siril_arg(sess.master_flat)>>>>
    ELSE <<>>

_drizzle_flat_arg(proj, sess, produced) ==
    IF produced THEN <<<<"flat", <<"pp_flat_stacked">>>>>>
    ELSE IF Truthy(sess.master_flat) THEN <<<<"flat", siril_arg(sess.master_flat)>>>>
    ELSE IF proj.use_master_library THEN <<<<"flat", <<"$defflat">>>>>>
    ELSE <<>>

\* a packing decision that looks at the session's own count only
_pack_flag_for_own_count(folder_name, sess_index, m, force, counts, thresh) ==
    IF m \in {"fitseq", "ser"} THEN <<Flag(m)>>
    ELSE IF m = "auto" /\ folder_name = "lights"
            /\ counts[sess_index] >= thresh THEN <<Flag("fitseq")>>
    ELSE <<>>

_pack_flag_for(folder_name, sess_index, m, force, counts, thresh) ==
    IF m \in {"fitseq", "ser"} THEN <<Flag(m)>>
    ELSE IF m = "auto" /\ folder_name = "lights"
            /\ (force \/ counts[sess_index] >= thresh) THEN <<Flag("fitseq")>>
    ELSE <<>>

RECURSIVE Sum(_)
Sum(counts) == IF counts = <<>> THEN 0 ELSE Head(counts) + Sum(Tail(counts))

SessRoot(proj, sess) ==
    Normalize(proj.working_dir
              \o (IF Truthy(sess.work_subdir) THEN sess.work_subdir ELSE <<sess.name>>))

SubDir(proj, sess, folder) == Normalize(Append(SessRoot(proj, sess), folder))

Resolved(eff, build) == [eff |-> eff, will_build |-> build]

\* a resolver that prefers the per-session master to the raw frames
ResolveBiasOverrideFirst(proj, sess) ==
    IF Truthy(sess.master_bias) THEN Resolved(siril_arg(sess.master_bias), FALSE)
    ELSE IF Truthy(sess.bias) THEN Resolved(<<"bias_stacked">>, TRUE)
    ELSE IF proj.use_master_library THEN Resolved(<<"$defbias">>, FALSE)
    ELSE Resolved(None, FALSE)

\* raw frames > per-session master > library
ResolveBias(proj, sess) ==
    IF Truthy(sess.bias) THEN Resolved(<<"bias_stacked">>, TRUE)
    ELSE IF Truthy(sess.master_bias) THEN Resolved(siril_arg(sess.master_bias), FALSE)
    ELSE IF proj.use_master_library THEN Resolved(<<"$defbias">>, FALSE)
    ELSE Resolved(None, FALSE)

ResolveDark(proj, sess) ==
    IF Truthy(sess.darks) THEN Resolved(<<"dark_stacked">>, TRUE)
    ELSE IF Truthy(sess.master_dark) THEN Resolved(siril_arg(sess.master_dark), FALSE)
    ELSE IF proj.use_master_library THEN Resolved(<<"$defdark">>, FALSE)
    ELSE Resolved(None, FALSE)

\* a dark-flat resolver that falls back to a shared library master
ResolveDarkFlatShared(proj, sess) ==
    IF Truthy(sess.dark_flats) THEN Resolved(<<"df_stacked">>, TRUE)
    ELSE IF Truthy(sess.master_dark_flat)
         THEN Resolved(siril_arg(sess.master_dark_flat), FALSE)
    ELSE IF proj.use_master_library THEN Resolved(<<"$defdarkflat">>, FALSE)
    ELSE Resolved(None, FALSE)

ResolveDarkFlat(proj, sess) ==
    IF Truthy(sess.dark_flats) THEN Resolved(<<"df_stacked">>, TRUE)
    ELSE IF Truthy(sess.master_dark_flat)
         THEN Resolved(siril_arg(sess.master_dark_flat), FALSE)
    ELSE Resolved(None, FALSE)

\* a flat calibration that prefers the bias outcome to the dark-flat outcome
FlatSubtractBiasFirst(df, bias) ==
    IF Truthy(bias) THEN <<<<"bias", bias>>>>
    ELSE IF Truthy(df) THEN <<<<"bias", df>>>>
    ELSE <<>>

FlatSubtract(df, bias) ==
    IF Truthy(df) THEN <<<<"bias", df>>>>
    ELSE IF Truthy(bias) THEN <<<<"bias", bias>>>>
    ELSE <<>>

FlatPart(proj, sess, made_flat) ==
    IF made_flat THEN <<<<"flat", <<"pp_flat_stacked">>>>>>
    ELSE IF Truthy(sess.master_flat) /\ ~Truthy(sess.flats)
         THEN <<<<"flat", siril_arg(sess.master_flat)>>>>
    ELSE IF proj.use_master_library /\ ~Truthy(sess.flats)
         THEN <<<<"flat", <<"$defflat">>>>>>
    ELSE <<>>

\* the dark term with the per-session master preferred to the session-built master
DarkForLightsOverrideFirst(proj, sess, build_dark) ==
    IF Truthy(sess.master_dark)
         THEN [dark_part |-> <<<<"dark", siril_arg(sess.master_dark)>>>>, has_dark |-> TRUE]
    ELSE IF build_dark
         THEN [dark_part |-> <<<<"dark", <<"dark_stacked">>>>>>, has_dark |-> TRUE]
    ELSE IF proj.use_master_library /\ ~Truthy(sess.darks)
         THEN [dark_part |-> <<<<"dark", <<"$defdark">>>>>>, has_dark |-> TRUE]
    ELSE [dark_part |-> <<>>, has_dark |-> FALSE]

\* a dark term that names the session-built master although none is built
DarkForLightsUnbuilt(proj, sess, build_dark) ==
    IF build_dark \/ Truthy(sess.master_dark)
         THEN [dark_part |-> <<<<"dark", <<"dark_stacked">>>>>>, has_dark |-> TRUE]
    ELSE [dark_part |-> <<>>, has_dark |-> FALSE]

DarkForLights(proj, sess, build_dark) ==
    IF build_dark
         THEN [dark_part |-> <<<<"dark", <<"dark_stacked">>>>>>, has_dark |-> TRUE]
    ELSE IF Truthy(sess.master_dark) /\ ~Truthy(sess.darks)
         THEN [dark_part |-> <<<<"dark", siril_arg(sess.master_dark)>>>>, has_dark |-> TRUE]
    ELSE IF proj.use_master_library /\ ~Truthy(sess.darks)
         THEN [dark_part |-> <<<<"dark", <<"$defdark">>>>>>, has_dark |-> TRUE]
    ELSE [dark_part |-> <<>>, has_dark |-> FALSE]

\* cosmetic correction requested whether or not a dark was resolved
CcFlagAlways(has_dark) == <<<<"cc", <<"dark">>>>>>

CcFlag(has_dark) == IF has_dark THEN <<<<"cc", <<"dark">>>>>> ELSE <<>>

\* calibration that debayers whatever the drizzle setting
DebayerFlagsAlways(proj) == <<Flag("cfa"), Flag("equalize_cfa"), Flag("debayer")>>

DebayerFlags(proj) ==
    IF proj.drizzle_enabled THEN <<Flag("cfa")>>
    ELSE <<Flag("cfa"), Flag("equalize_cfa"), Flag("debayer")>>

RegFlags(proj) ==
    <<<<"layer", <<"0">>>>>> \o (IF proj.two_pass THEN <<Flag("2pass")>> ELSE <<>>)

DrizzleArgs(proj) ==
    <<Flag("drizzle"), <<"scale", <<proj.drizzle_scaling>>>>,
      <<"pixfrac", <<proj.drizzle_pixfrac>>>>, <<"kernel", <<proj.drizzle_kernel>>>>>>

\* fast-path tests with one of the two conditions wrong
FastPathInverted(proj) == proj.drizzle_enabled /\ proj.two_pass

FastPathAnyDrizzle(proj) == proj.drizzle_enabled

FastPathIgnoresDrizzle(proj) == ~proj.two_pass

FastPath(proj) == proj.drizzle_enabled /\ ~proj.two_pass

MergeInputs(seqs) == [k \in 1..Len(seqs) |-> Append(seqs[k][1], seqs[k][2])]

(***************************************************************************)
(* SirilCommandBuilder.build, one action per block of the method.          *)
(***************************************************************************)
\* lines a process prints, runs of one widget
MaxLines == 3
MaxRuns == 2

\* a message box shown to the operator: its icon and its text
Box(icon, text) == <<icon, text>>

NoBox == Box("none", "")

\* the output of a process that prints no progress line: the regular
\* expression of on_lines matches none of its lines
NoProgress == [k \in 1..MaxLines |-> {}]

\* the session editor as constructed (the widgets of SessionEditor.__init__)
EmptyEditor ==
    [name |-> "Session 1", work_subdir |-> None, lights |-> <<>>, bias |-> <<>>,
     darks |-> <<>>, flats |-> <<>>, dark_flats |-> <<>>, master_bias |-> None,
     master_dark |-> None, master_flat |-> None, master_dark_flat |-> None]

\* nothing serialised, nothing loaded, no row selected
Desk ==
    /\ doc = "model" /\ saved = <<>> /\ loaded = Project
    /\ ed = EmptyEditor /\ currentRow = -1 /\ _loading_session = FALSE /\ assigned = {}

\* the idle ProjectWidget after `started` runs the model has followed: no
\* process, no reader, Abort disabled
Idle(started) ==
    /\ proc = "none" /\ ignores = FALSE /\ signalled = FALSE
    /\ written = 0 /\ stdout = <<>> /\ returncode = "None"
    /\ _proc = FALSE /\ _reader = FALSE /\ runs = started
    /\ btn_run_siril = TRUE /\ btn_abort = FALSE
    /\ btn_prepare = TRUE /\ btn_build_script = TRUE
    /\ report = NoBox /\ viewer = "none" /\ artifact = "unchecked"
    /\ progress = <<"reset", 0>>
    /\ now = 0 /\ maybe_emit = FALSE /\ _last_pct = -1 /\ _last_emit = 0
    /\ orphans = 0 /\ strays = 0
    /\ late_read = FALSE /\ updates = 0
    /\ esc = "none" /\ stale = FALSE /\ age = 0
    /\ opens = 0 /\ footer = -1
    /\ _dirty = FALSE /\ was_dirty = FALSE /\ unsaved = FALSE
    /\ rd = "unstarted" /\ _stop = FALSE /\ buf = <<>> /\ lf = <<>>
    /\ queue = <<>> /\ gui = "idle" /\ idx = 0
    /\ read = <<>> /\ sent = <<>> /\ forwarded = <<>> /\ cancelled = FALSE

\* ProjectWidget as constructed
Constructed == Idle(0)

InitOf(inputs) ==
    /\ \E in \in inputs : p = in[1] /\ disk = in[2]
    /\ pc = "build"
    /\ i = 0
    /\ L = <<>>
    /\ comp_state = 0
    /\ want_final_fz = FALSE
    /\ pp_seqs = <<>>
    /\ any_session = FALSE
    /\ produced_flat = {}
    /\ mode = "off"
    /\ pack_thresh = 0
    /\ per_session_lights = <<>>
    /\ total_lights = 0
    /\ force_pack_lights = FALSE
    /\ eff_bias = None
    /\ eff_dark = None
    /\ eff_df = None
    /\ will_build_bias_master = FALSE
    /\ will_build_dark_master = FALSE
    /\ will_build_df_master = FALSE
    /\ did_make_pp_flat = FALSE
    /\ base_dir = None
    /\ Constructed
    /\ connected = TRUE
    /\ pcts = NoProgress
    /\ Desk

Init == InitOf(TopoInputs \cup CalInputs \cup PackInputs \cup MiscInputs)

InitTopo == InitOf(TopoInputs)

InitCal == InitOf(CalInputs)

InitPack == InitOf(PackInputs \cup {<<q, DiskOf(q)>> : q \in Unconfigured})

InitMisc == InitOf(MiscInputs)

sess == p.sessions[i]

OnOff(b) == IF b THEN "ON" ELSE "OFF"

Header(proj) ==
    << Comment("#!Siril script generated by multi-night-stacking.py"),
       Cmd("requires", <<<<"1.3.4">>>>, <<>>),
       Cmd("setfindstar", <<<<"reset">>>>, <<>>),
       Blank,
       Cd(Normalize(proj.working_dir)),
       Blank,
       Comment("Use Master Library: "
               \o (IF proj.use_master_library THEN "enabled" ELSE "disabled")),
       Comment("Drizzle: " \o OnOff(proj.drizzle_enabled)),
       Comment("2-pass registration: " \o OnOff(proj.two_pass)),
       Comment("Global stack method: " \o proj.stack_method),
       Blank >>

BuildRaise ==
    /\ pc = "build"
    /\ ~Truthy(p.working_dir)
    /\ pc' = "raised"
    /\ UNCHANGED <<harnessVars, p, disk, i, L, comp_state, want_final_fz, pp_seqs, any_session,
                   produced_flat, packVars, sessVars, base_dir>>

BuildBegin ==
    /\ pc = "build"
    /\ Truthy(p.working_dir)
    /\ pp_seqs' = <<>>
    /\ any_session' = FALSE
    /\ produced_flat' = {}
    /\ want_final_fz' = p.compress_intermediates
    /\ comp_state' = (IF p.compress_intermediates THEN 1 ELSE 0)
    /\ L' = Append(Header(p), Cmd("setcompress", <<<<ToString(comp_state')>>>>, <<>>))
    /\ pc' = "pack"
    /\ UNCHANGED <<harnessVars, p, disk, i, packVars, sessVars, base_dir>>

PackPrecompute ==
    /\ pc = "pack"
    /\ mode' = Lower(IF p.pack_sequences_mode = "" THEN "off" ELSE p.pack_sequences_mode)
    /\ pack_thresh' = p.pack_threshold
    /\ per_session_lights' = [k \in 1..Len(p.sessions) |-> disk[k]]
    /\ total_lights' = Sum(per_session_lights')
    /\ force_pack_lights' = (mode' = "auto" /\ total_lights' >= pack_thresh')
    /\ i' = 1
    /\ pc' = (IF Len(p.sessions) = 0 THEN "global" ELSE "resolve")
    /\ UNCHANGED <<harnessVars, p, disk, L, comp_state, want_final_fz, pp_seqs, any_session,
                   produced_flat, sessVars, base_dir>>

SessionResolve ==
    /\ pc = "resolve"
    /\ L' = Append(L, Comment("---------------- Session: " \o sess.name))
    /\ eff_bias' = ResolveBias(p, sess).eff
    /\ will_build_bias_master' = ResolveBias(p, sess).will_build
    /\ eff_dark' = ResolveDark(p, sess).eff
    /\ will_build_dark_master' = ResolveDark(p, sess).will_build
    /\ eff_df' = ResolveDarkFlat(p, sess).eff
    /\ will_build_df_master' = ResolveDarkFlat(p, sess).will_build
    /\ pc' = "bias"
    /\ UNCHANGED <<harnessVars, p, disk, i, comp_state, want_final_fz, pp_seqs, any_session,
                   produced_flat, packVars, did_make_pp_flat, base_dir>>

\* a master build that climbs two levels instead of one
MasterBuildClimbsTwice(folder, seq_name, out) ==
    << Cd(SubDir(p, sess, folder)),
       Cmd("setext", <<<<"fit">>>>, <<>>),
       Cmd("convert", <<<<seq_name>>>>, <<<<"out", <<"..", "process">>>>>>),
       Cd(SubDir(p, sess, "process")),
       MasterStack(p, seq_name, out),
       Cd(<<"..", "..">>),
       Blank >>

MasterBuild(folder, seq_name, out) ==
    << Cd(SubDir(p, sess, folder)),
       Cmd("setext", <<<<"fit">>>>, <<>>),
       Cmd("convert", <<<<seq_name>>>>, <<<<"out", <<"..", "process">>>>>>),
       Cd(SubDir(p, sess, "process")),
       MasterStack(p, seq_name, out),
       Cd(<<"..">>),
       Blank >>

BuildBiasMaster ==
    /\ pc = "bias"
    /\ L' = (IF will_build_bias_master
             THEN L \o MasterBuild("bias", "bias", "bias_stacked") ELSE L)
    /\ pc' = "darkflat"
    /\ UNCHANGED <<harnessVars, p, disk, i, comp_state, want_final_fz, pp_seqs, any_session,
                   produced_flat, packVars, sessVars, base_dir>>

BuildDarkFlatMaster ==
    /\ pc = "darkflat"
    /\ L' = (IF will_build_df_master
             THEN L \o MasterBuild("darkflats", "darkflat", "df_stacked") ELSE L)
    /\ pc' = "dark"
    /\ UNCHANGED <<harnessVars, p, disk, i, comp_state, want_final_fz, pp_seqs, any_session,
                   produced_flat, packVars, sessVars, base_dir>>

BuildDarkMaster ==
    /\ pc = "dark"
    /\ L' = (IF will_build_dark_master
             THEN L \o MasterBuild("darks", "dark", "dark_stacked") ELSE L)
    /\ pc' = "flat"
    /\ UNCHANGED <<harnessVars, p, disk, i, comp_state, want_final_fz, pp_seqs, any_session,
                   produced_flat, packVars, sessVars, base_dir>>

BuildFlat ==
    /\ pc = "flat"
    /\ IF Truthy(sess.flats)
       THEN /\ L' = L \o << Cd(SubDir(p, sess, "flats")),
                            Cmd("setext", <<<<"fit">>>>, <<>>),
                            Cmd("convert", <<<<"flat">>>>, <<<<"out", <<"..", "process">>>>>>),
                            Cd(SubDir(p, sess, "process")),
                            Cmd("calibrate", <<<<"flat">>>>, FlatSubtract(eff_df, eff_bias)),
                            FlatStack(p),
                            Cd(<<"..">>),
                            Blank >>
            /\ did_make_pp_flat' = TRUE
            /\ produced_flat' = produced_flat \cup {sess.name}
       ELSE /\ L' = L
            /\ did_make_pp_flat' = FALSE
            /\ produced_flat' = produced_flat
    /\ pc' = "lights"
    /\ UNCHANGED <<harnessVars, p, disk, i, comp_state, want_final_fz, pp_seqs, any_session,
                   packVars, eff_bias, eff_dark, eff_df, will_build_bias_master,
                   will_build_dark_master, will_build_df_master, base_dir>>

Lights ==
    /\ pc = "lights"
    /\ LET pack_flag == _pack_flag_for("lights", i, mode, force_pack_lights,
                                       per_session_lights, pack_thresh)
           flat_part == FlatPart(p, sess, did_make_pp_flat)
           dark      == DarkForLights(p, sess, will_build_dark_master)
       IN  L' = L \o << Cd(SubDir(p, sess, "lights")),
                        Cmd("setext", <<<<"fit">>>>, <<>>),
                        Cmd("convert", <<<<"light">>>>,
                            Append(pack_flag, <<"out", <<"..", "process">>>>)),
                        Cd(SubDir(p, sess, "process")),
                        Comment("Calibrate Light Frames (OSC)"),
                        Cmd("calibrate", <<<<"light">>>>,
                            dark.dark_part \o flat_part \o CcFlag(dark.has_dark)
                              \o DebayerFlags(p)),
                        Blank >>
    /\ pp_seqs' = Append(pp_seqs, <<SubDir(p, sess, "process"), "pp_light">>)
    /\ any_session' = TRUE
    /\ i' = i + 1
    /\ pc' = (IF i < Len(p.sessions) THEN "resolve" ELSE "global")
    /\ UNCHANGED <<harnessVars, p, disk, comp_state, want_final_fz, produced_flat, packVars,
                   sessVars, base_dir>>

(***************************************************************************)
(* Global stage: merge, register, [seqapplyreg], stack, then finalize.     *)
(***************************************************************************)
GlobalBegin ==
    /\ pc = "global"
    /\ any_session /\ Truthy(pp_seqs)
    /\ base_dir' = pp_seqs[1][1]
    /\ L' = L \o << Comment("---------------- Global Registration & Stacking"),
                    Cd(base_dir'),
                    Cmd("setfindstar", <<>>, <<>>) >>
    /\ pc' = (IF Len(pp_seqs) = 1 THEN "single" ELSE "multi")
    /\ UNCHANGED <<harnessVars, p, disk, i, comp_state, want_final_fz, pp_seqs, any_session,
                   produced_flat, packVars, sessVars>>

NoGlobalStage ==
    /\ pc = "global"
    /\ ~(any_session /\ Truthy(pp_seqs))
    /\ L' = Append(L, Comment("No sessions with usable lights were found to stack."))
    /\ pc' = "footer"
    /\ UNCHANGED <<harnessVars, p, disk, i, comp_state, want_final_fz, pp_seqs, any_session,
                   produced_flat, packVars, sessVars, base_dir>>

\* a final stack that is not preceded by the restoring set_comp(1)
RestoreSkipped(st) == st

Restore(st) == IF want_final_fz THEN set_comp(st, 1) ELSE st

SingleRegisterStack(st) ==
    IF FastPath(p)
    THEN LET flat_opt == _drizzle_flat_arg(p, p.sessions[1],
                                           p.sessions[1].name \in produced_flat)
             a == set_comp(st, 0)
             b == Emit(a, Cmd("register", <<<<"pp_light">>>>,
                              RegFlags(p) \o DrizzleArgs(p) \o flat_opt))
         IN  Emit(Restore(b), FinalStack(p, "r_pp_light"))
    ELSE LET a == Emit(st, Cmd("register", <<<<"pp_light">>>>, RegFlags(p)))
         IN  IF p.drizzle_enabled
             THEN LET b == set_comp(a, 0)
                      c == Emit(b, Cmd("seqapplyreg", <<<<"pp_light">>>>, DrizzleArgs(p)))
                  IN  Emit(Restore(c), FinalStack(p, "r_pp_light"))
             ELSE LET b == IF p.two_pass
                           THEN Emit(a, Cmd("seqapplyreg", <<<<"pp_light">>>>, <<>>))
                           ELSE a
                  IN  Emit(Restore(b), FinalStack(p, "r_pp_light"))

SingleSession ==
    /\ pc = "single"
    /\ LET st == SingleRegisterStack(
                     Emit(Script(L, comp_state),
                          Comment("Single session: register pp_light, then stack")))
       IN  L' = st.L /\ comp_state' = st.comp_state
    /\ pc' = "finalize"
    /\ UNCHANGED <<harnessVars, p, disk, i, want_final_fz, pp_seqs, any_session,
                   produced_flat, packVars, sessVars, base_dir>>

MultiRegisterStack(st) ==
    IF FastPath(p)
    THEN LET a == set_comp(st, 0)
             b == Emit(a, Cmd("register", <<<<"all_sessions">>>>,
                              RegFlags(p) \o DrizzleArgs(p)))
         IN  Emit(Restore(b), FinalStack(p, "r_all_sessions"))
    ELSE LET a == Emit(st, Cmd("register", <<<<"all_sessions">>>>, RegFlags(p)))
         IN  IF p.drizzle_enabled
             THEN LET b == set_comp(a, 0)
                      c == Emit(b, Cmd("seqapplyreg", <<<<"all_sessions">>>>,
                                       DrizzleArgs(p)))
                  IN  Emit(Restore(c), FinalStack(p, "r_all_sessions"))
             ELSE LET b == IF p.two_pass
                           THEN Emit(a, Cmd("seqapplyreg", <<<<"all_sessions">>>>, <<>>))
                           ELSE a
                  IN  Emit(Restore(b), FinalStack(p, "r_all_sessions"))

MergeCmd(seqs) == Cmd("merge", Append(MergeInputs(seqs), <<"all_sessions">>), <<>>)

MultiSession ==
    /\ pc = "multi"
    /\ LET st == MultiRegisterStack(Emit(Script(L, comp_state), MergeCmd(pp_seqs)))
       IN  L' = st.L /\ comp_state' = st.comp_state
    /\ pc' = "finalize"
    /\ UNCHANGED <<harnessVars, p, disk, i, want_final_fz, pp_seqs, any_session,
                   produced_flat, packVars, sessVars, base_dir>>

(***************************************************************************)
(* safe_slug: the project name, a sequence of characters, as a file-name   *)
(* slug.                                                                   *)
(***************************************************************************)
SlugChars ==
    {"A", "B", "C", "D", "E", "F", "G", "H", "I", "J", "K", "L", "M", "N", "O", "P",
     "Q", "R", "S", "T", "U", "V", "W", "X", "Y", "Z",
     "a", "b", "c", "d", "e", "f", "g", "h", "i", "j", "k", "l", "m", "n", "o", "p",
     "q", "r", "s", "t", "u", "v", "w", "x", "y", "z",
     "0", "1", "2", "3", "4", "5", "6", "7", "8", "9", ".", "_", "-"}

RECURSIVE LStrip(_, _)
LStrip(cs, drop) ==
    IF cs # <<>> /\ Head(cs) \in drop THEN LStrip(Tail(cs), drop) ELSE cs

RECURSIVE RStrip(_, _)
RStrip(cs, drop) ==
    IF cs # <<>> /\ cs[Len(cs)] \in drop
    THEN RStrip(SubSeq(cs, 1, Len(cs) - 1), drop) ELSE cs

Strip(cs, drop) == RStrip(LStrip(cs, drop), drop)

\* re.sub(r"[^A-Za-z0-9._-]+", "_", cs)
RECURSIVE SubRuns(_)
SubRuns(cs) ==
    IF cs = <<>> THEN <<>>
    ELSE LET n == Len(cs)
             init == SubRuns(SubSeq(cs, 1, n - 1))
         IN  IF cs[n] \in SlugChars THEN Append(init, cs[n])
             ELSE IF n > 1 /\ cs[n - 1] \notin SlugChars THEN init
             ELSE Append(init, "_")

\* re.sub(r"_+", "_", cs)
RECURSIVE Collapse(_)
Collapse(cs) ==
    IF cs = <<>> THEN <<>>
    ELSE LET n == Len(cs)
             init == Collapse(SubSeq(cs, 1, n - 1))
         IN  IF cs[n] = "_" /\ n > 1 /\ cs[n - 1] = "_" THEN init
             ELSE Append(init, cs[n])

RECURSIVE Str(_)
Str(cs) == IF cs = <<>> THEN "" ELSE Head(cs) \o Str(Tail(cs))

safe_slug(name) ==
    LET slug == Strip(Collapse(SubRuns(Strip(name, {" "}))), {"_"})
    IN  IF slug = <<>> THEN "project" ELSE Str(slug)

Finalize ==
    /\ pc = "finalize"
    /\ LET proj_slug == safe_slug(p.name)
           a == Emit(Script(L, comp_state),
                     Comment("Copy final image to the project working directory"))
           b == IF want_final_fz
                THEN set_comp(Emit(a, Cmd("load", <<<<"final_stacked.fit.fz">>>>, <<>>)), 0)
                ELSE Emit(a, Cmd("load", <<<<"final_stacked.fit">>>>, <<>>))
           c == Emit(b, Cmd("mirrorx", <<>>, <<Flag("bottomup")>>))
           d == Emit(c, Cmd("save", <<<<"..", "..", proj_slug \o "_final.fit">>>>, <<>>))
           e == Emit(d, Comment("Final output: ../../" \o proj_slug \o "_final.fit"))
           f == Emit(e, Cd(base_dir))
       IN  L' = f.L /\ comp_state' = f.comp_state
    /\ pc' = "footer"
    /\ UNCHANGED <<harnessVars, p, disk, i, want_final_fz, pp_seqs, any_session,
                   produced_flat, packVars, sessVars, base_dir>>

Footer ==
    /\ pc = "footer"
    /\ L' = L \o <<Blank, Cmd("setfindstar", <<<<"reset">>>>, <<>>), Cmd("close", <<>>, <<>>)>>
    /\ pc' = "done"
    /\ UNCHANGED <<harnessVars, p, disk, i, comp_state, want_final_fz, pp_seqs, any_session,
                   produced_flat, packVars, sessVars, base_dir>>

Next ==
    \/ BuildRaise
    \/ BuildBegin
    \/ PackPrecompute
    \/ SessionResolve
    \/ BuildBiasMaster
    \/ BuildDarkFlatMaster
    \/ BuildDarkMaster
    \/ BuildFlat
    \/ Lights
    \/ GlobalBegin
    \/ NoGlobalStage
    \/ SingleSession
    \/ MultiSession
    \/ Finalize
    \/ Footer

Spec == Init /\ [][Next]_vars

SpecTopo == InitTopo /\ [][Next]_vars

SpecCal == InitCal /\ [][Next]_vars

SpecPack == InitPack /\ [][Next]_vars

SpecMisc == InitMisc /\ [][Next]_vars

(***************************************************************************)
(* Running the script: ProjectWidget.run_siril launches siril-cli and a    *)
(* _ProcReader thread that reads the process's output line by line, writes *)
(* it to the log file lf and hands it in batches, through the queued       *)
(* got_lines signal, to on_lines in the GUI thread.  The process's lines   *)
(* are numbered 1, 2, ... in the order it writes them.                     *)
(*                                                                         *)
(* got_lines is a pyqtSignal(list): the queued event carries a reference   *)
(* to the reader's list buf, not a copy, so on_lines iterates over what    *)
(* buf holds when the GUI thread gets to it.  The history variables read,  *)
(* sent and forwarded record the lines read from the process, the batches  *)
(* as they were at emission, and the lines on_lines has seen.              *)
(***************************************************************************)

BatchLimit == 128

WidgetAfter(projects, out, conn, started) ==
    /\ \E in \in {<<q, DiskOf(q)>> : q \in projects} : p = in[1] /\ disk = in[2]
    /\ pc = "built"
    /\ i = 0
    /\ L = <<>>
    /\ comp_state = 0
    /\ want_final_fz = FALSE
    /\ pp_seqs = <<>>
    /\ any_session = FALSE
    /\ produced_flat = {}
    /\ mode = "off"
    /\ pack_thresh = 0
    /\ per_session_lights = <<>>
    /\ total_lights = 0
    /\ force_pack_lights = FALSE
    /\ eff_bias = None
    /\ eff_dark = None
    /\ eff_df = None
    /\ will_build_bias_master = FALSE
    /\ will_build_dark_master = FALSE
    /\ will_build_df_master = FALSE
    /\ did_make_pp_flat = FALSE
    /\ base_dir = None
    /\ Idle(started)
    /\ connected = conn
    /\ pcts = out

Widget(projects, out, conn) == WidgetAfter(projects, out, conn, 0)

InitHarness(projects, out, conn) == Widget(projects, out, conn) /\ Desk

\* the widget with and without a connection to Siril, the working directory
\* set or not, and a process that prints no progress line
InitRun == InitHarness(Empty \cup Unconfigured, NoProgress, TRUE) \/ InitHarness(Empty, NoProgress, FALSE)

\* a launch that leaves Run Siril enabled
RunButtonsLeftEnabled ==
    /\ btn_run_siril' = TRUE /\ btn_abort' = TRUE
    /\ btn_prepare' = FALSE /\ btn_build_script' = FALSE

\* self.btn_run_siril.setEnabled(False) and the three calls after it
RunButtons ==
    /\ btn_run_siril' = FALSE /\ btn_abort' = TRUE
    /\ btn_prepare' = FALSE /\ btn_build_script' = FALSE

\* a refusal that has already switched the controls to their run state
RefuseAfterToggle(box) ==
    /\ report' = box
    /\ RunButtons
    /\ UNCHANGED <<procVars, _proc, _reader, runs, readerVars, guiVars, historyVars,
                   envVars, dirtyVars, viewer, artifact, progress, throttleVars, strayVars, logVars,
                   auditVars>>

\* QMessageBox, return: the request ends with the box and nothing else
Refuse(box) ==
    /\ report' = box
    /\ UNCHANGED <<procVars, widgetVars, readerVars, guiVars, historyVars,
                   envVars, dirtyVars, viewer, artifact, progress, throttleVars, strayVars, logVars,
                   auditVars>>

\* open(log_path, how) with a mode that truncates the file
OpenTruncating(file, how) == <<>>

\* open(log_path, how): the engine lines in the file once it is open
Open(file, how) == IF how = "w" THEN <<>> ELSE file

\* Popen succeeded: the controls are switched, the reader is created and
\* started.  The engine ignores the interrupt or honours it.  A process or
\* a reader thread that the widget still had is no longer referred to.
\* The log file of a run is new (siril_run_<timestamp>.log); the header is
\* written to it, then the process is started
Launch ==
    /\ runs < MaxRuns
    /\ runs' = runs + 1
    /\ \E ig \in BOOLEAN : ignores' = ig
    /\ orphans' = orphans + (IF proc = "running" THEN 1 ELSE 0)
    /\ strays' = strays + (IF rd \in {"unstarted", "done"} THEN 0 ELSE 1)
    /\ proc' = "running" /\ signalled' = FALSE /\ written' = 0
    /\ stdout' = <<>> /\ returncode' = "None"
    /\ _proc' = TRUE /\ _reader' = TRUE
    /\ RunButtons
    /\ \E old_engine \in BOOLEAN :
          report' = (IF old_engine /\ p.drizzle_enabled
                     THEN Box("warning", "Drizzle requires 1.4+.") ELSE NoBox)
    /\ viewer' = "none" /\ artifact' = "unchecked"
    /\ rd' = "open" /\ _stop' = FALSE /\ buf' = <<>> /\ lf' = Open(<<>>, "a")
    /\ opens' = 1 /\ footer' = -1
    /\ _last_pct' = -1 /\ _last_emit' = 0
    /\ read' = <<>> /\ sent' = <<>> /\ forwarded' = <<>> /\ cancelled' = FALSE
    /\ late_read' = FALSE /\ updates' = 0
    /\ esc' = "none" /\ stale' = FALSE /\ age' = 0
    /\ was_dirty' = _dirty
    /\ UNCHANGED <<guiVars, envVars, _dirty, unsaved, progress, now, maybe_emit>>

\* Run Siril clicked: the script file exists or not, siril-cli is found
\* (or picked in the dialog) or not, Popen succeeds or raises
run_siril ==
    /\ btn_run_siril /\ gui = "idle"
    /\ \E script_exists, found, spawned \in BOOLEAN :
          IF ~Truthy(p.working_dir)
          THEN Refuse(Box("warning", "Please set a working directory."))
          ELSE IF ~script_exists
          THEN Refuse(Box("warning", "Script not found."))
          ELSE IF ~found
          THEN Refuse(Box("critical", "siril-cli not found."))
          ELSE IF ~spawned
          THEN Refuse(Box("critical", "Failed to launch siril-cli"))
          ELSE Launch
    /\ UNCHANGED builderVars

ProcWrite ==
    /\ proc = "running"
    /\ written < MaxLines
    /\ written' = written + 1
    /\ stdout' = Append(stdout, written')
    /\ UNCHANGED <<builderVars, restVars, proc, ignores, signalled, returncode, widgetVars,
                   readerVars, guiVars, historyVars>>

\* the process ends by itself, with exit code 0 or another
ProcExit ==
    /\ proc = "running"
    /\ proc' = "exited"
    /\ \E rc \in {"0", "1"} : returncode' = rc
    /\ UNCHANGED <<builderVars, restVars, ignores, signalled, written, stdout, widgetVars,
                   readerVars, guiVars, historyVars>>

\* the process ends because it was interrupted
ProcInterrupted ==
    /\ proc = "running"
    /\ signalled /\ ~ignores
    /\ proc' = "exited"
    /\ returncode' = "-2"
    /\ UNCHANGED <<builderVars, restVars, ignores, signalled, written, stdout, widgetVars,
                   readerVars, guiVars, historyVars>>

(***************************************************************************)
(* _ProcReader.run, one action per step of the reader thread.              *)
(***************************************************************************)
\* with open(self.log_path, "a", ...) as lf
ReaderOpen ==
    /\ rd = "open"
    /\ lf' = Open(lf, "a")
    /\ opens' = opens + 1
    /\ rd' = "loop"
    /\ UNCHANGED <<builderVars, envVars, dirtyVars, reportVars, throttleVars, strayVars, footer,
                   auditVars, procVars, widgetVars, _stop, buf, guiVars, historyVars>>

\* while not self._stop
ReaderLoop ==
    /\ rd = "loop"
    /\ rd' = (IF _stop THEN "finally" ELSE "readline")
    /\ UNCHANGED <<builderVars, restVars, procVars, widgetVars, _stop, buf, lf, guiVars,
                   historyVars>>

\* line = self.proc.stdout.readline(): the call is issued
ReadCall ==
    /\ rd = "readline"
    /\ rd' = "reading"
    /\ late_read' = (late_read \/ cancelled)
    /\ UNCHANGED <<builderVars, procVars, widgetVars, _stop, buf, lf, guiVars,
                   historyVars, envVars, dirtyVars, reportVars, throttleVars, strayVars, logVars,
                   updates, escVars, age>>

\* readline returns a line: buf.append(line)
ReadLine ==
    /\ rd = "reading"
    /\ stdout # <<>>
    /\ buf' = Append(buf, Head(stdout))
    /\ read' = Append(read, Head(stdout))
    /\ stdout' = Tail(stdout)
    /\ rd' = "batch"
    /\ age' = (IF buf = <<>> THEN 0 ELSE age)
    /\ UNCHANGED <<builderVars, envVars, dirtyVars, reportVars, throttleVars, strayVars, logVars, late_read,
                   updates, escVars, proc, ignores, signalled, written, returncode,
                   widgetVars, _stop, lf, guiVars, sent, forwarded, cancelled>>

\* an end-of-file handling that leaves the loop without flushing
ReadEofNoFlush ==
    /\ rd = "reading"
    /\ stdout = <<>> /\ proc = "exited"
    /\ rd' = "wait"
    /\ UNCHANGED <<builderVars, restVars, procVars, widgetVars, _stop, buf, lf, guiVars,
                   historyVars>>

\* readline returns nothing: end of file
ReadEof ==
    /\ rd = "reading"
    /\ stdout = <<>> /\ proc = "exited"
    /\ rd' = (IF buf # <<>> THEN "eof_emit" ELSE "finally")
    /\ UNCHANGED <<builderVars, restVars, procVars, widgetVars, _stop, buf, lf, guiVars,
                   historyVars>>

\* (now - t0) >= 0.12 or len(buf) >= 128.  t0 is not later than the read of
\* the oldest pending line: the interval has elapsed when that line is one
\* interval old, and may have elapsed before.
BatchCheck ==
    /\ rd = "batch"
    /\ \E elapsed \in (IF age >= 1 THEN {TRUE} ELSE BOOLEAN) :
          rd' = (IF elapsed \/ Len(buf) >= BatchLimit THEN "flush_emit" ELSE "loop")
    /\ UNCHANGED <<builderVars, restVars, procVars, widgetVars, _stop, buf, lf, guiVars,
                   historyVars>>

\* self.got_lines.emit(buf): the event refers to buf
EmitBuf(at, next) ==
    /\ rd = at
    /\ queue' = Append(queue, "got_lines")
    /\ sent' = Append(sent, buf)
    /\ rd' = next
    /\ UNCHANGED <<builderVars, restVars, procVars, widgetVars, _stop, buf, lf, gui, idx,
                   read, forwarded, cancelled>>

\* for ln in buf: lf.write(ln), then buf.clear() where the code has it; the
\* finally block, which does not clear, writes through a handle of its own
\* (with open(self.log_path, "a", ...) as lf2)
WriteBuf(at, next, clear) ==
    /\ rd = at
    /\ lf' = (IF clear THEN lf ELSE Open(lf, "a")) \o buf
    /\ opens' = (IF clear THEN opens ELSE opens + 1)
    /\ buf' = (IF clear THEN <<>> ELSE buf)
    /\ rd' = next
    /\ age' = 0
    /\ UNCHANGED <<builderVars, envVars, dirtyVars, reportVars, throttleVars, strayVars, footer, late_read,
                   updates, escVars, procVars, widgetVars, _stop, guiVars, historyVars>>

FlushEmit == EmitBuf("flush_emit", "flush_write")

FlushWrite == WriteBuf("flush_write", "loop", TRUE)

EofEmit == EmitBuf("eof_emit", "eof_write")

EofWrite == WriteBuf("eof_write", "finally", TRUE)

\* finally: if buf
Finally ==
    /\ rd = "finally"
    /\ rd' = (IF buf # <<>> THEN "finally_emit" ELSE "wait")
    /\ UNCHANGED <<builderVars, restVars, procVars, widgetVars, _stop, buf, lf, guiVars,
                   historyVars>>

FinallyEmit == EmitBuf("finally_emit", "finally_write")

FinallyWrite == WriteBuf("finally_write", "wait", FALSE)

\* a reader that emits finished_ok without waiting for the process
WaitFinishedNoWait ==
    /\ rd = "wait"
    /\ queue' = Append(queue, "finished_ok")
    /\ rd' = "done"
    /\ UNCHANGED <<builderVars, restVars, procVars, widgetVars, _stop, buf, lf, gui, idx,
                   historyVars>>

\* self.proc.wait(); self.finished_ok.emit(self.proc.returncode)
WaitFinished ==
    /\ rd = "wait"
    /\ proc = "exited"
    /\ queue' = Append(queue, "finished_ok")
    /\ rd' = "done"
    /\ UNCHANGED <<builderVars, restVars, procVars, widgetVars, _stop, buf, lf, gui, idx,
                   historyVars>>

(***************************************************************************)
(* The GUI thread: it takes the queued events in order; on_lines iterates  *)
(* over the list it was handed, one element per step.                      *)
(***************************************************************************)
\* self._progress_interval (hundredths of a second) and
\* self._progress_min_delta (tenths of a percent)
_progress_interval == 22

_progress_min_delta == 3

\* readings of time.monotonic(), in hundredths of a second
ClockStep == 22

MaxTicks == 2

ClockReadings == {k * ClockStep : k \in 1..MaxTicks}

Abs(x) == IF x < 0 THEN -x ELSE x

\* max(0.0, min(1.0, pct / 100.0)), in thousandths
Fraction(pct) == IF pct < 0 THEN 0 ELSE IF pct > 1000 THEN 1000 ELSE pct

\* (self._last_pct < 0) or (abs(pct - self._last_pct) >= self._progress_min_delta)
delta_ok(pct) == _last_pct < 0 \/ Abs(pct - _last_pct) >= _progress_min_delta

\* on_lines is entered: without a connection it returns at once, otherwise
\* it reads the clock and computes maybe_emit, once for the batch
on_lines ==
    /\ gui = "idle"
    /\ queue # <<>> /\ Head(queue) = "got_lines"
    /\ queue' = Tail(queue)
    /\ IF connected
       THEN /\ gui' = "on_lines"
            /\ idx' = 0
            /\ \E t \in ClockReadings :
                  /\ t >= _last_emit
                  /\ now' = t
                  /\ maybe_emit' = (t - _last_emit >= _progress_interval)
       ELSE UNCHANGED <<gui, idx, now, maybe_emit>>
    /\ UNCHANGED <<builderVars, procVars, widgetVars, readerVars, historyVars,
                   envVars, dirtyVars, reportVars, _last_pct, _last_emit, strayVars, logVars, auditVars>>

\* for ln in lines: self.siril.log(ln.rstrip()), and the progress update
\* when the line holds a percentage
OnLinesNext ==
    /\ gui = "on_lines"
    /\ IF idx < Len(buf)
       THEN LET ln == buf[idx + 1]
                m == pcts[ln]
                pct == CHOOSE x \in m : TRUE
            IN  /\ forwarded' = Append(forwarded, ln)
                /\ idx' = idx + 1
                /\ gui' = gui
                /\ UNCHANGED <<now, maybe_emit>>
                /\ IF m # {} /\ (delta_ok(pct) \/ maybe_emit)
                   THEN /\ _last_pct' = pct
                        /\ _last_emit' = now
                        /\ progress' = <<"Running siril-cli", Fraction(pct)>>
                        /\ updates' = updates + 1
                   ELSE UNCHANGED <<_last_pct, _last_emit, progress, updates>>
       ELSE /\ forwarded' = forwarded
            /\ idx' = 0
            /\ gui' = "idle"
            /\ now' = 0 /\ maybe_emit' = FALSE
            /\ UNCHANGED <<_last_pct, _last_emit, progress, updates>>
    /\ UNCHANGED <<builderVars, procVars, widgetVars, readerVars, queue,
                   read, sent, cancelled, envVars, dirtyVars, report, viewer, artifact,
                   strayVars, logVars, late_read, escVars, age>>

\* on_finished that leaves Run Siril disabled
IdleButtonsRunLeftDisabled ==
    /\ btn_run_siril' = btn_run_siril /\ btn_abort' = FALSE
    /\ btn_prepare' = TRUE /\ btn_build_script' = TRUE

\* self.btn_run_siril.setEnabled(True) and the three calls after it
IdleButtons ==
    /\ btn_run_siril' = TRUE /\ btn_abort' = FALSE
    /\ btn_prepare' = TRUE /\ btn_build_script' = TRUE

\* on_finished(rc): the final image exists or not, loading it works or raises
on_finished ==
    /\ gui = "idle"
    /\ queue # <<>> /\ Head(queue) = "finished_ok"
    /\ queue' = Tail(queue)
    /\ progress' = (IF connected THEN <<"reset", 0>> ELSE progress)
    /\ IdleButtons
    /\ IF returncode = "0"
       THEN \E exists, raises \in BOOLEAN :
              /\ artifact' = (IF exists THEN "present" ELSE "absent")
              /\ viewer' = (IF exists /\ connected
                            THEN (IF raises THEN "failed to load" ELSE "loaded")
                            ELSE "none")
              /\ report' = Box("information", "Processing finished")
       ELSE /\ UNCHANGED <<artifact, viewer>>
            /\ report' = Box("critical", "siril-cli exited with code")
    /\ _proc' = FALSE /\ _reader' = FALSE
    /\ lf' = Open(lf, "a")
    /\ opens' = opens + 1
    /\ footer' = Len(lf')
    /\ _dirty' = (IF ~_dirty /\ was_dirty THEN TRUE ELSE _dirty)
    /\ UNCHANGED <<builderVars, procVars, runs, rd, _stop, buf, gui, idx, historyVars,
                   envVars, was_dirty, unsaved, throttleVars, strayVars, late_read, updates, escVars, age>>

\* Abort Run, answered Yes: interrupt the process and stop the reader
abort_siril ==
    /\ gui = "idle"
    /\ btn_abort /\ _proc
    /\ signalled' = (signalled \/ proc = "running")
    /\ _stop' = TRUE
    /\ cancelled' = TRUE
    /\ UNCHANGED <<builderVars, restVars, proc, ignores, written, stdout, returncode,
                   widgetVars, rd, buf, lf, guiVars, read, sent, forwarded>>

NextRun ==
    \/ run_siril
    \/ ProcWrite
    \/ ProcExit
    \/ ProcInterrupted
    \/ ReaderOpen
    \/ ReaderLoop
    \/ ReadCall
    \/ ReadLine
    \/ ReadEof
    \/ BatchCheck
    \/ FlushEmit
    \/ FlushWrite
    \/ EofEmit
    \/ EofWrite
    \/ Finally
    \/ FinallyEmit
    \/ FinallyWrite
    \/ WaitFinished
    \/ on_lines
    \/ OnLinesNext
    \/ on_finished
    \/ abort_siril

SpecRun == InitRun /\ [][NextRun]_vars

\* outputs with progress lines: the percentage (in tenths of a percent) grows
\* by a step from line to line, and some lines hold no percentage
PctSteps == {1, 500}

QuietLines == {{}, {2}}

ProgressOutputs ==
    {[k \in 1..MaxLines |-> IF k \in quiet THEN {} ELSE {100 + step * k}] : step \in PctSteps, quiet \in QuietLines}

InitProgress == \E out \in ProgressOutputs : InitHarness(Empty, out, TRUE)

SpecProgress == InitProgress /\ [][NextRun]_vars

\* the threads and the event loop keep running; a process that honours the
\* interrupt ends; nothing makes a process end by itself
ReaderStep ==
    \/ ReaderOpen \/ ReaderLoop \/ ReadCall \/ ReadLine \/ ReadEof \/ BatchCheck \/ FlushEmit \/ FlushWrite
    \/ EofEmit \/ EofWrite \/ Finally \/ FinallyEmit \/ FinallyWrite \/ WaitFinished

GuiStep == on_lines \/ OnLinesNext \/ on_finished

SpecRunFair ==
    /\ InitRun /\ [][NextRun]_vars
    /\ WF_vars(ReaderStep)
    /\ WF_vars(GuiStep)
    /\ WF_vars(ProcInterrupted)

(***************************************************************************)
(* Reading a script: positions of directives, the compression state and    *)
(* the current directory the engine is in after a prefix of the script.    *)
(***************************************************************************)
Lines == 1..Len(L)

OpIdx(op) == {j \in Lines : L[j].op = op}

SetMax(S) == CHOOSE x \in S : \A y \in S : y <= x

LastComp(j) ==
    LET S == {k \in 1..(j - 1) : L[k].op = "setcompress"}
    IN  IF S = {} THEN "unset" ELSE L[SetMax(S)].args[1][1]

IsDrizzleStep(d) == d.op \in {"register", "seqapplyreg"} /\ HasOpt(d, "drizzle")

IsFinalStack(d) ==
    d.op = "stack" /\ HasOpt(d, "out") /\ OptVal(d, "out") = <<"final_stacked">>

Passive(d) == d.op \in {"setcompress", "#", ""}

\* directive s is the first pipeline directive after directive r
DirectlyFollows(r, s) == r < s /\ \A k \in (r + 1)..(s - 1) : Passive(L[k])

Usable == {k \in 1..Len(p.sessions) : Truthy(p.sessions[k].lights)}

ChDir(cwd, path) ==
    IF path # <<>> /\ path[1] = "/" THEN Normalize(path) ELSE Normalize(cwd \o path)

RECURSIVE CwdAfter(_)
CwdAfter(n) ==
    IF n = 0 THEN <<"/">>
    ELSE IF L[n].op = "cd" THEN ChDir(CwdAfter(n - 1), L[n].args[1])
    ELSE CwdAfter(n - 1)

Depth(dir) == Len(dir) - Len(Normalize(p.working_dir))

(***************************************************************************)
(* C1: whenever a register or seqapplyreg directive carrying drizzle       *)
(* arguments is emitted, the last setcompress directive before it          *)
(* requested 0 (uncompressed).                                             *)
(***************************************************************************)
C1_DrizzleUncompressed ==
    \A j \in Lines : IsDrizzleStep(L[j]) => LastComp(j) = "0"

C1_Witness ==
    /\ pc = "done"
    /\ p.compress_intermediates
    /\ Len(p.sessions) >= 2
    /\ \E j \in Lines : L[j].op = "seqapplyreg" /\ IsDrizzleStep(L[j])

(***************************************************************************)
(* C2: read in order, starting with the one seeded from the compression    *)
(* preference, no setcompress directive requests the state requested by    *)
(* the setcompress directive before it.                                    *)
(***************************************************************************)
C2_NoRepeatedCompress ==
    \A j \in Lines : L[j].op = "setcompress" => LastComp(j) # L[j].args[1][1]

C2_Witness ==
    /\ pc = "done"
    /\ Cardinality(OpIdx("setcompress")) = 4

(***************************************************************************)
(* C3 as stated: in the finished script the directory-entering cd          *)
(* directives after the initial cd to the working directory are matched    *)
(* one to one by return-to-parent directives, and the script ends at the   *)
(* depth it started at, the working directory.                             *)
(***************************************************************************)
IsReturn(d) == d.op = "cd" /\ d.args[1] = <<"..">>

IsEnter(d) == d.op = "cd" /\ d.args[1] # <<"..">> /\ d.args[1] # Normalize(p.working_dir)

C3_WitnessSubdir ==
    /\ pc = "done"
    /\ Len(p.sessions) >= 1
    /\ Len(p.sessions[1].work_subdir) = 2
    /\ Depth(CwdAfter(Len(L))) = 3

(***************************************************************************)
(* C4 as stated: with two or more usable sessions (sessions that have      *)
(* light frames) the finished script has exactly one merge directive, it   *)
(* lists the calibrated sequence of every usable session, and of no other, *)
(* in session order, and it precedes every register directive; with        *)
(* exactly one usable session the script has no merge directive.           *)
(***************************************************************************)
RECURSIVE UsableSeqs(_)
UsableSeqs(n) ==
    IF n = 0 THEN <<>>
    ELSE IF n \in Usable
         THEN Append(UsableSeqs(n - 1), Append(SubDir(p, p.sessions[n], "process"), "pp_light"))
         ELSE UsableSeqs(n - 1)

C4_MergeUsableSessions ==
    pc = "done" =>
        /\ Cardinality(Usable) >= 2 =>
              \E m \in Lines :
                 /\ OpIdx("merge") = {m}
                 /\ L[m].args = Append(UsableSeqs(Len(p.sessions)), <<"all_sessions">>)
                 /\ \A r \in OpIdx("register") : m < r
        /\ Cardinality(Usable) = 1 => OpIdx("merge") = {}

(***************************************************************************)
(* C5: with drizzle on, two-pass off and exactly one usable session, the   *)
(* finished script has one register directive, it carries the drizzle      *)
(* arguments, the final stack is the next pipeline directive after it, and *)
(* there is no seqapplyreg directive.                                      *)
(***************************************************************************)
CarriesDrizzleArgs(d) ==
    \E k \in 1..Len(d.opts) :
       k + 3 <= Len(d.opts) /\ SubSeq(d.opts, k, k + 3) = DrizzleArgs(p)

GlobalTarget == IF Len(p.sessions) = 1 THEN <<"pp_light">> ELSE <<"all_sessions">>

C6_TwoStepDrizzle ==
    (pc = "done" /\ p.drizzle_enabled /\ p.two_pass /\ Len(p.sessions) >= 1) =>
        \E r \in OpIdx("register"), a \in OpIdx("seqapplyreg"), s \in Lines :
           /\ r < a /\ a < s
           /\ OpIdx("register") = {r}
           /\ L[r].args = <<GlobalTarget>>
           /\ ~HasOpt(L[r], "drizzle") /\ ~CarriesDrizzleArgs(L[r])
           /\ OpIdx("seqapplyreg") = {a}
           /\ L[a].args = <<GlobalTarget>>
           /\ L[a].opts = DrizzleArgs(p)
           /\ IsFinalStack(L[s])
           /\ \A k \in Lines : IsFinalStack(L[k]) => k = s
           /\ Len(p.sessions) >= 2 => \E m \in OpIdx("merge") : m < r

C6_Witness ==
    /\ pc = "done" /\ p.drizzle_enabled /\ p.two_pass
    /\ Len(p.sessions) >= 2
    /\ \E a \in OpIdx("seqapplyreg") : L[a].args = <<<<"all_sessions">>>>

C7_WitnessDirect ==
    /\ pc = "done" /\ ~p.drizzle_enabled /\ ~p.two_pass /\ Len(p.sessions) >= 2
    /\ \E r, s \in Lines : L[r].op = "register" /\ IsFinalStack(L[s]) /\ s = r + 1

(***************************************************************************)
(* Reading the calibration decisions of one session.  After               *)
(* SessionResolve the resolver's outcomes for session i are in eff_bias,   *)
(* eff_dark and eff_df; once the session's Lights block is emitted, the    *)
(* session's segment is the tail of L from its header comment.             *)
(***************************************************************************)
InSession == pc \in {"bias", "darkflat", "dark", "flat", "lights"}

JustDone == pc \in {"resolve", "global"} /\ i > 1

done == p.sessions[i - 1]

SegLines ==
    LET h == SetMax({j \in Lines :
                       L[j] = Comment("---------------- Session: " \o done.name)})
    IN  {j \in Lines : j > h}

SamePath(a, b) == Normalize(a) = Normalize(b)

\* the segment converts the raw frames and stacks them into the master `out`
Built(seq_name, out) ==
    \E c, s \in SegLines :
       /\ c < s
       /\ L[c].op = "convert" /\ L[c].args = <<<<seq_name>>>>
       /\ L[s].op = "stack" /\ L[s].args[1] = <<seq_name>>
       /\ OptVal(L[s], "out") = <<out>>

Calibrate(kind) == {j \in SegLines : L[j].op = "calibrate" /\ L[j].args = <<<<kind>>>>}

\* the values of the -key= option on the segment's calibrate directives of a kind
Terms(kind, key) == {OptVal(L[j], key) : j \in {c \in Calibrate(kind) : HasOpt(L[c], key)}}

Overrides(master, shared) ==
    {<<shared>>} \cup (IF Truthy(master) THEN {Normalize(master)} ELSE {})

(***************************************************************************)
(* C8: for bias, dark and dark-flat, a session that has raw frames of the  *)
(* kind resolves to "build": the outcome is the session-built master, the  *)
(* segment converts and stacks the raw frames into it, and no calibrate    *)
(* directive of the segment takes the kind's override or shared default.   *)
(***************************************************************************)
C8_RawFramesBuild ==
    /\ InSession =>
          /\ Truthy(sess.bias) =>
                eff_bias = <<"bias_stacked">> /\ will_build_bias_master
          /\ Truthy(sess.darks) =>
                eff_dark = <<"dark_stacked">> /\ will_build_dark_master
          /\ Truthy(sess.dark_flats) =>
                eff_df = <<"df_stacked">> /\ will_build_df_master
    /\ JustDone =>
          /\ Truthy(done.bias) =>
                /\ Built("bias", "bias_stacked")
                /\ Terms("flat", "bias") \cap Overrides(done.master_bias, "$defbias") = {}
                /\ (Truthy(done.flats) /\ eff_df = None) =>
                      Terms("flat", "bias") = {<<"bias_stacked">>}
          /\ Truthy(done.darks) =>
                /\ Built("dark", "dark_stacked")
                /\ Terms("light", "dark") = {<<"dark_stacked">>}
          /\ Truthy(done.dark_flats) =>
                /\ Built("darkflat", "df_stacked")
                /\ Truthy(done.flats) => Terms("flat", "bias") = {<<"df_stacked">>}
                /\ ~Truthy(done.flats) => Terms("flat", "bias") = {}

C8_Witness ==
    /\ JustDone
    /\ p.use_master_library
    /\ Truthy(done.bias) /\ Truthy(done.darks) /\ Truthy(done.flats)
    /\ ~Truthy(done.dark_flats)
    /\ Truthy(done.master_bias) /\ Truthy(done.master_dark)
    /\ Truthy(done.master_dark_flat) = FALSE
    /\ Terms("flat", "bias") = {<<"bias_stacked">>}

(***************************************************************************)
(* C9 as stated: with no raw frames of the kind, bias, dark and dark-flat  *)
(* all resolve to the override if set, else to a shared default when the   *)
(* library flag is on, else to absent.                                     *)
(***************************************************************************)
Fallback(eff, master, shared) ==
    IF Truthy(master) THEN SamePath(eff, master)
    ELSE IF p.use_master_library THEN eff = shared
    ELSE eff = None

C9_SameChainForAllKinds ==
    InSession =>
       /\ ~Truthy(sess.bias) => Fallback(eff_bias, sess.master_bias, <<"$defbias">>)
       /\ ~Truthy(sess.darks) => Fallback(eff_dark, sess.master_dark, <<"$defdark">>)
       /\ ~Truthy(sess.dark_flats) =>
             IF Truthy(sess.master_dark_flat) THEN SamePath(eff_df, sess.master_dark_flat)
             ELSE IF p.use_master_library THEN Truthy(eff_df)
             ELSE eff_df = None

(***************************************************************************)
(* C9 as amended: with no raw frames of the kind, bias and dark resolve to *)
(* the override if set, else to the shared default ($defbias, $defdark)    *)
(* when the library flag is on, else to absent; dark-flat resolves to the  *)
(* override if set and to absent otherwise: it has no shared default.      *)
(* None of the three is then built.                                        *)
(***************************************************************************)
C9_FallbackChain ==
    InSession =>
       /\ ~Truthy(sess.bias) =>
             /\ Fallback(eff_bias, sess.master_bias, <<"$defbias">>)
             /\ ~will_build_bias_master
       /\ ~Truthy(sess.darks) =>
             /\ Fallback(eff_dark, sess.master_dark, <<"$defdark">>)
             /\ ~will_build_dark_master
       /\ ~Truthy(sess.dark_flats) =>
             /\ IF Truthy(sess.master_dark_flat)
                THEN SamePath(eff_df, sess.master_dark_flat)
                ELSE eff_df = None
             /\ ~will_build_df_master

C9_Witness ==
    /\ InSession
    /\ p.use_master_library
    /\ ~Truthy(sess.bias) /\ ~Truthy(sess.darks) /\ ~Truthy(sess.dark_flats)
    /\ ~Truthy(sess.master_bias) /\ Truthy(sess.master_dark)
    /\ ~Truthy(sess.master_dark_flat)
    /\ eff_bias = <<"$defbias">>
    /\ eff_dark = <<"lib", "dark.fit">>
    /\ eff_df = None

(***************************************************************************)
(* C10: on a session's calibrate light directive the dark (resp. flat)     *)
(* term is the session-built master when the session has raw darks (resp.  *)
(* flats), whatever the override; without raw frames it is the override if *)
(* set, else the shared default when the library flag is on, else the      *)
(* argument is omitted.                                                    *)
(***************************************************************************)
LightTerm(key, raw, built, master, shared) ==
    IF Truthy(raw) THEN Terms("light", key) = {<<built>>}
    ELSE IF Truthy(master)
         THEN \E t \in Terms("light", key) :
                 Terms("light", key) = {t} /\ SamePath(t, master)
    ELSE IF p.use_master_library THEN Terms("light", key) = {<<shared>>}
    ELSE Terms("light", key) = {}

C10_LightTerms ==
    JustDone =>
       /\ Cardinality(Calibrate("light")) = 1
       /\ LightTerm("dark", done.darks, "dark_stacked", done.master_dark, "$defdark")
       /\ LightTerm("flat", done.flats, "pp_flat_stacked", done.master_flat, "$defflat")

C10_Witness ==
    /\ JustDone
    /\ p.use_master_library
    /\ Truthy(done.darks) /\ Truthy(done.master_dark)
    /\ ~Truthy(done.flats) /\ ~Truthy(done.master_flat)
    /\ Terms("light", "dark") = {<<"dark_stacked">>}
    /\ Terms("light", "flat") = {<<"$defflat">>}

(***************************************************************************)
(* C11: when a session's flat is built (the session has raw flats), the    *)
(* segment has one calibrate flat directive; its subtract term is the      *)
(* resolved dark-flat outcome when dark-flat resolved to anything, else    *)
(* the resolved bias outcome, and with neither the directive has no        *)
(* subtract term; the flat is then stacked.  A session without raw flats   *)
(* has no calibrate flat directive.                                        *)
(***************************************************************************)
C11_FlatSubtractTerm ==
    JustDone =>
       IF Truthy(done.flats)
       THEN /\ Cardinality(Calibrate("flat")) = 1
            /\ Terms("flat", "bias") =
                  (IF Truthy(eff_df) THEN {eff_df}
                   ELSE IF Truthy(eff_bias) THEN {eff_bias}
                   ELSE {})
            /\ \A c \in Calibrate("flat") :
                  /\ Len(L[c].opts) <= 1
                  /\ L[c + 1] = FlatStack(p)
            /\ Truthy(done.dark_flats) => eff_df = <<"df_stacked">>
            /\ (~Truthy(done.dark_flats) /\ Truthy(done.master_dark_flat)) =>
                  SamePath(eff_df, done.master_dark_flat)
       ELSE Calibrate("flat") = {}

C11_Witness ==
    /\ JustDone
    /\ Truthy(done.flats) /\ Truthy(done.bias)
    /\ ~Truthy(done.dark_flats) /\ Truthy(done.master_dark_flat)
    /\ eff_bias = <<"bias_stacked">>
    /\ Terms("flat", "bias") = {<<"lib", "darkflat.fit">>}

C11_WitnessBias ==
    /\ JustDone
    /\ Truthy(done.flats) /\ ~Truthy(done.bias) /\ ~Truthy(done.master_bias)
    /\ eff_df = None
    /\ Terms("flat", "bias") = {<<"$defbias">>}

C11_WitnessNone ==
    /\ JustDone
    /\ Truthy(done.flats)
    /\ eff_df = None /\ eff_bias = None
    /\ \E c \in Calibrate("flat") : L[c].opts = <<>>

(***************************************************************************)
(* C12 as stated: a session with zero light frames is skipped in the       *)
(* global stage: its calibrated sequence is not listed by any merge        *)
(* directive, and only the sessions with light frames count when the       *)
(* single-session or the multi-session topology is chosen (no merge and a  *)
(* register of pp_light for one, a merge for two or more); its flat master *)
(* is still built when it has raw flats.                                   *)
(***************************************************************************)
SeqOf(k) == Append(SubDir(p, p.sessions[k], "process"), "pp_light")

Listed(m, k) == \E a \in 1..Len(L[m].args) : L[m].args[a] = SeqOf(k)

C12_ZeroLightSkipped ==
    pc = "done" =>
        /\ \A m \in OpIdx("merge") :
              \A k \in 1..Len(p.sessions) : Listed(m, k) => k \in Usable
        /\ Cardinality(Usable) = 1 =>
              /\ OpIdx("merge") = {}
              /\ \A r \in OpIdx("register") : L[r].args = <<<<"pp_light">>>>
        /\ Cardinality(Usable) >= 2 =>
              /\ OpIdx("merge") # {}
              /\ \A r \in OpIdx("register") : L[r].args = <<<<"all_sessions">>>>
        /\ \A k \in 1..Len(p.sessions) :
              (k \notin Usable /\ Truthy(p.sessions[k].flats)) =>
                 \E s \in Lines : L[s] = FlatStack(p)

(***************************************************************************)
(* C13 as stated: when no session of the project has a light frame, the    *)
(* finished script has no global stage: no merge, register, seqapplyreg,   *)
(* final stack, load, mirrorx or save directive, only the explanatory      *)
(* marker.                                                                 *)
(***************************************************************************)
Marker == Comment("No sessions with usable lights were found to stack.")

GlobalOps == {"merge", "register", "seqapplyreg", "load", "mirrorx", "save"}

C13_NoGlobalStage ==
    (pc = "done" /\ Usable = {}) =>
        /\ \A j \in Lines : L[j].op \notin GlobalOps /\ ~IsFinalStack(L[j])
        /\ \E j \in Lines : L[j] = Marker

(***************************************************************************)
(* C14 as stated: a register or seqapplyreg directive carries a flat       *)
(* argument only in the drizzle fast path (drizzle on, two-pass off) of a  *)
(* single-session project, and only if that session built a flat from raw  *)
(* flats or has a per-session flat master; no such directive of a script   *)
(* with a merge directive carries a flat argument.                         *)
(***************************************************************************)
IsAlign(d) == d.op \in {"register", "seqapplyreg"}

FlatArgs(d) == {d.opts[k][2] : k \in {n \in 1..Len(d.opts) : d.opts[n][1] = "flat"}}

C14_WitnessMerged ==
    /\ pc = "done"
    /\ Len(p.sessions) = 2
    /\ p.drizzle_enabled /\ ~p.two_pass
    /\ Truthy(p.sessions[2].flats) /\ Truthy(p.sessions[2].master_flat)
    /\ OpIdx("merge") # {}
    /\ \E r \in OpIdx("register") : HasOpt(L[r], "drizzle") /\ FlatArgs(L[r]) = {}

(***************************************************************************)
(* C15: the packing flag on a session's convert light directive is a       *)
(* function of the packing mode, the threshold and the numbers of light    *)
(* files found in the sessions' lights directories: none in mode off, the  *)
(* forced format in modes fitseq and ser whatever the counts, and in mode  *)
(* auto a flag exactly when the session's own count or the sum of the      *)
(* counts of all sessions reaches the threshold.                           *)
(***************************************************************************)
ConvertLight == {j \in SegLines : L[j].op = "convert" /\ L[j].args = <<<<"light">>>>}

PackFlags(d) == {d.opts[k][1] : k \in 1..Len(d.opts)} \ {"out"}

PackMode == Lower(IF p.pack_sequences_mode = "" THEN "off" ELSE p.pack_sequences_mode)

C15_PackingFlag ==
    JustDone =>
       /\ Cardinality(ConvertLight) = 1
       /\ \A c \in ConvertLight :
             PackFlags(L[c]) =
                CASE PackMode = "off" -> {}
                  [] PackMode \in {"fitseq", "ser"} -> {PackMode}
                  [] PackMode = "auto" ->
                        IF disk[i - 1] >= p.pack_threshold
                           \/ Sum(disk) >= p.pack_threshold
                        THEN {"fitseq"} ELSE {}

C15_Witness ==
    /\ JustDone
    /\ PackMode = "auto"
    /\ disk[i - 1] < p.pack_threshold
    /\ Sum(disk) >= p.pack_threshold
    /\ \E c \in ConvertLight : PackFlags(L[c]) = {"fitseq"}

C15_WitnessForced ==
    /\ JustDone
    /\ PackMode = "ser"
    /\ Sum(disk) < p.pack_threshold
    /\ \E c \in ConvertLight : PackFlags(L[c]) = {"ser"}

C15_WitnessBelow ==
    /\ JustDone
    /\ p.pack_sequences_mode = "Auto"
    /\ Sum(disk) < p.pack_threshold /\ Sum(disk) > 0
    /\ \E c \in ConvertLight : PackFlags(L[c]) = {}

(***************************************************************************)
(* C16: every calibrate light directive, of every session, has no debayer  *)
(* and no CFA equalization request when drizzle is enabled (it keeps the   *)
(* CFA state), and requests both debayer and CFA equalization when drizzle *)
(* is disabled; the finished script has one such directive per session.    *)
(***************************************************************************)
IsCalibrateLight(d) == d.op = "calibrate" /\ d.args = <<<<"light">>>>

C16_DebayerDecision ==
    /\ \A j \in Lines :
          IsCalibrateLight(L[j]) =>
             /\ HasOpt(L[j], "cfa")
             /\ IF p.drizzle_enabled
                THEN ~HasOpt(L[j], "debayer") /\ ~HasOpt(L[j], "equalize_cfa")
                ELSE HasOpt(L[j], "debayer") /\ HasOpt(L[j], "equalize_cfa")
    /\ pc = "done" =>
          Cardinality({j \in Lines : IsCalibrateLight(L[j])}) = Len(p.sessions)

C16_Witness ==
    /\ pc = "done"
    /\ p.drizzle_enabled
    /\ Len(p.sessions) = 2
    /\ Cardinality({j \in Lines : IsCalibrateLight(L[j]) /\ ~HasOpt(L[j], "debayer")}) = 2

C16_WitnessDebayer ==
    /\ pc = "done"
    /\ ~p.drizzle_enabled
    /\ Cardinality({j \in Lines : IsCalibrateLight(L[j]) /\ HasOpt(L[j], "debayer")}) = 2

(***************************************************************************)
(* C17: a calibrate light directive carries the cosmetic-correction flag   *)
(* -cc=dark if and only if it carries a dark term (the built dark, the     *)
(* per-session override or the shared default).                            *)
(***************************************************************************)
C17_CosmeticIffDark ==
    \A j \in Lines :
       IsCalibrateLight(L[j]) =>
          /\ HasOpt(L[j], "cc") <=> HasOpt(L[j], "dark")
          /\ HasOpt(L[j], "cc") => OptVal(L[j], "cc") = <<"dark">>

C17_Witness ==
    /\ JustDone
    /\ ~p.use_master_library
    /\ ~Truthy(done.darks) /\ Truthy(done.master_dark)
    /\ \E c \in Calibrate("light") :
          /\ OptVal(L[c], "dark") = <<"lib", "dark.fit">>
          /\ HasOpt(L[c], "cc")

C17_WitnessNoDark ==
    /\ JustDone
    /\ ~p.use_master_library
    /\ ~Truthy(done.darks) /\ ~Truthy(done.master_dark) /\ Truthy(done.flats)
    /\ \E c \in Calibrate("light") :
          ~HasOpt(L[c], "dark") /\ ~HasOpt(L[c], "cc") /\ HasOpt(L[c], "flat")

(***************************************************************************)
(* Reading a run: the run is over once on_finished has handled the         *)
(* reader's completion signal.                                             *)
(***************************************************************************)
IsPrefix(s, t) == Len(s) <= Len(t) /\ SubSeq(t, 1, Len(s)) = s

RECURSIVE Flatten(_)
Flatten(batches) ==
    IF batches = <<>> THEN <<>> ELSE Head(batches) \o Flatten(Tail(batches))

RunOver == runs > 0 /\ ~_proc

(***************************************************************************)
(* C18 as stated: under every interleaving of the reader thread and the    *)
(* GUI thread, the lines written to the log file and the lines on_lines    *)
(* is handed are, each, the lines read from the process in the order they  *)
(* were read: always a prefix of them (nothing duplicated, reordered or    *)
(* mixed across batches) and, when the run is over, all of them (nothing   *)
(* lost).                                                                  *)
(***************************************************************************)
C18_ExactLinesInOrder ==
    /\ IsPrefix(lf, read)
    /\ IsPrefix(forwarded, read)
    /\ RunOver => lf = read /\ forwarded = read

\* the log-file half of C18 alone
LogFileInOrder ==
    /\ IsPrefix(lf, read)
    /\ RunOver => lf = read

\* the batches as they were when emitted
SentInOrder ==
    /\ IsPrefix(Flatten(sent), read)
    /\ RunOver => Flatten(sent) = read

C20_CancelledRunEnds == cancelled ~> RunOver

\* what holds: a cancelled run is over once the process has ended by itself
\* or has honoured the interrupt
CancelledRunEndsIfProcessEnds == (cancelled /\ (~ignores \/ proc = "exited")) ~> RunOver

(***************************************************************************)
(* The outcome of a run as on_finished tells it to the operator.           *)
(***************************************************************************)
ReportedFailed == report = Box("critical", "siril-cli exited with code")

ReportedSucceeded == report = Box("information", "Processing finished")

(***************************************************************************)
(* C21 as stated: a run for which cancel was requested and which is over   *)
(* is never reported to the operator as a failed run, whatever exit code   *)
(* the interrupted process returned.                                       *)
(***************************************************************************)
C21_CancelledNeverFailed == (cancelled /\ RunOver) => ~ReportedFailed

(***************************************************************************)
(* C22: when a run for which cancel was requested is over, the progress    *)
(* display is reset, Run Siril is enabled and Abort disabled, and the      *)
(* widget is idle with no process and no reader, which is all a run        *)
(* request needs to be handled.                                            *)
(***************************************************************************)
C22_CompletedAbortIdle ==
    (cancelled /\ RunOver) =>
        /\ progress = <<"reset", 0>>
        /\ btn_run_siril /\ ~btn_abort
        /\ gui = "idle" /\ queue = <<>>
        /\ ~_reader

\* a cancelled run that had set the progress display is over
C22_Witness == cancelled /\ RunOver /\ updates > 0 /\ runs < MaxRuns

\* another run can still be launched after the cancelled one
C22_WitnessNextRun == cancelled /\ RunOver /\ runs < MaxRuns

(***************************************************************************)
(* C23 as stated: under every interleaving of the cancel request with the  *)
(* reader loop, the reader issues no read call on the process's output     *)
(* once cancel has been requested.                                         *)
(***************************************************************************)
C23_NoReadAfterCancel == ~late_read

\* the other half of C23: a stopped reader that has left its loop has
\* written every line it read to the log file and emitted it in a batch
CancelledReaderFlushes ==
    (cancelled /\ rd \in {"wait", "done"}) => (lf = read /\ Flatten(sent) = read)

(***************************************************************************)
(* C24: in every reachable state no engine process and no reader thread is *)
(* live besides the ones the widget refers to, and Run Siril is disabled   *)
(* whenever the process is live or the reader has not finished.            *)
(***************************************************************************)
ReaderLive == rd \notin {"unstarted", "done"}

C24_AtMostOneRun ==
    /\ orphans = 0 /\ strays = 0
    /\ (proc = "running" \/ ReaderLive) => (~btn_run_siril /\ _proc /\ _reader)

\* a second run is live after the first one finished
C24_Witness == runs = 2 /\ proc = "running" /\ ReaderLive

(***************************************************************************)
(* C25 as stated: a run that was not cancelled and is over is reported     *)
(* succeeded exactly when the exit code is 0 and failed otherwise; when    *)
(* the exit code is 0 and the final image is absent the run is still       *)
(* succeeded and the absence is told to the operator as a warning.         *)
(***************************************************************************)
AbsenceWarned == viewer = "final image not found" \/ report[1] = "warning"

C25_OutcomeByExitCode ==
    (RunOver /\ ~cancelled /\ (ReportedSucceeded \/ ReportedFailed)) =>
        /\ ReportedSucceeded <=> (returncode = "0")
        /\ (returncode = "0" /\ artifact = "absent") => AbsenceWarned

\* the first half of C25 alone: the exit code decides between the two boxes
OutcomeByExitCodeAlone ==
    (RunOver /\ (ReportedSucceeded \/ ReportedFailed)) =>
        (ReportedSucceeded <=> (returncode = "0"))

(***************************************************************************)
(* C26: a run request that ends with one of run_siril's error boxes (no    *)
(* working directory, script not found, siril-cli not found, failed to     *)
(* launch) changes nothing but the box: no process and no reader is        *)
(* created or started, and the controls keep their state, which is Run     *)
(* Siril, Prepare and Build enabled and Abort disabled.                    *)
(***************************************************************************)
ErrorBoxes ==
    {Box("warning", "Please set a working directory."),
     Box("warning", "Script not found."),
     Box("critical", "siril-cli not found."),
     Box("critical", "Failed to launch siril-cli")}

C26_RefusedIdle ==
    (report \in ErrorBoxes) =>
        /\ ~_proc /\ ~_reader /\ proc # "running" /\ ~ReaderLive
        /\ btn_run_siril /\ btn_prepare /\ btn_build_script /\ ~btn_abort

C26_WitnessAll ==
    /\ report = Box("critical", "siril-cli not found.") /\ runs = 1 /\ rd = "done"

(***************************************************************************)
(* C27 as stated: when on_lines handles a line that holds a percentage,    *)
(* the percentage is forwarded to the progress callback if it is the first *)
(* of the run, or differs from the last forwarded value by at least 0.3,   *)
(* or at least 0.22 s have passed since the last forwarded update;         *)
(* otherwise it is not forwarded and the last forwarded value and time     *)
(* stay as they are.                                                       *)
(***************************************************************************)
PctStep == gui = "on_lines" /\ idx < Len(buf) /\ idx' = idx + 1 /\ pcts[buf[idx + 1]] # {}

PctHandled == CHOOSE x \in pcts[buf[idx + 1]] : TRUE

Due ==
    \/ _last_pct < 0
    \/ Abs(PctHandled - _last_pct) >= _progress_min_delta
    \/ now - _last_emit >= _progress_interval

C27_ProgressThrottle ==
    [][PctStep =>
         IF Due
         THEN updates' = updates + 1 /\ _last_pct' = PctHandled /\ _last_emit' = now
         ELSE UNCHANGED <<updates, _last_pct, _last_emit, progress>>]_vars

\* one direction of C27 alone: a percentage that is due is forwarded
DueIsForwarded ==
    [][(PctStep /\ Due) =>
         (updates' = updates + 1 /\ _last_pct' = PctHandled /\ _last_emit' = now)]_vars

(***************************************************************************)
(* Project.to_dict and Project.from_dict.  The numeric options are Python  *)
(* numbers: a type and a value in tenths, so that int() truncates and      *)
(* float() changes the type only.  A dict is a function from keys.         *)
(***************************************************************************)
Num(type, tenths) == [type |-> type, tenths |-> tenths]

float(x) == Num("float", x.tenths)

int(x) == Num("int", (x.tenths \div 10) * 10)

\* a bool() that answers True for whatever is stored
bool_always(x) == TRUE

bool(x) == (x = TRUE)

\* d.get(key, default)
Get(dict, key, default) == IF key \in DOMAIN dict THEN dict[key] ELSE default

\* asdict(self)
Session_to_dict(s) ==
    [name |-> s.name, lights |-> s.lights, bias |-> s.bias, darks |-> s.darks,
     flats |-> s.flats, dark_flats |-> s.dark_flats,
     master_bias |-> s.master_bias, master_dark |-> s.master_dark,
     master_flat |-> s.master_flat, master_dark_flat |-> s.master_dark_flat,
     work_subdir |-> s.work_subdir]

\* Session(**d): name is required, the other fields have defaults
Session_from_dict(sd) ==
    Session(sd.name, Get(sd, "lights", <<>>), Get(sd, "bias", <<>>),
            Get(sd, "darks", <<>>), Get(sd, "flats", <<>>), Get(sd, "dark_flats", <<>>),
            Get(sd, "master_bias", None), Get(sd, "master_dark", None),
            Get(sd, "master_flat", None), Get(sd, "master_dark_flat", None),
            Get(sd, "work_subdir", None))

to_dict(pr) ==
    [name |-> pr.name,
     project_file |-> pr.project_file,
     working_dir |-> pr.working_dir,
     use_master_library |-> pr.use_master_library,
     siril_cli_path |-> pr.siril_cli_path,
     drizzle_enabled |-> pr.drizzle_enabled,
     drizzle_scaling |-> pr.drizzle_scaling,
     drizzle_pixfrac |-> pr.drizzle_pixfrac,
     drizzle_kernel |-> pr.drizzle_kernel,
     two_pass |-> pr.two_pass,
     compress_intermediates |-> pr.compress_intermediates,
     stack_method |-> pr.stack_method,
     reject_sigma_low |-> pr.reject_sigma_low,
     reject_sigma_high |-> pr.reject_sigma_high,
     stack_32bit |-> pr.stack_32bit,
     pack_sequences_mode |-> pr.pack_sequences_mode,
     pack_threshold |-> int(pr.pack_threshold),
     sessions |-> [k \in 1..Len(pr.sessions) |-> Session_to_dict(pr.sessions[k])]]

from_dict(dict) ==
    [name |-> Get(dict, "name", Project.name),
     project_file |-> Get(dict, "project_file", None),
     working_dir |-> Get(dict, "working_dir", None),
     use_master_library |-> Get(dict, "use_master_library", TRUE),
     siril_cli_path |-> Get(dict, "siril_cli_path", None),
     drizzle_enabled |-> Get(dict, "drizzle_enabled", FALSE),
     drizzle_scaling |-> float(Get(dict, "drizzle_scaling", Num("float", 10))),
     drizzle_pixfrac |-> float(Get(dict, "drizzle_pixfrac", Num("float", 10))),
     drizzle_kernel |-> Get(dict, "drizzle_kernel", "square"),
     two_pass |-> bool(Get(dict, "two_pass", TRUE)),
     compress_intermediates |-> bool(Get(dict, "compress_intermediates", FALSE)),
     stack_method |-> Get(dict, "stack_method", "rej"),
     reject_sigma_low |-> float(Get(dict, "reject_sigma_low", Num("float", 30))),
     reject_sigma_high |-> float(Get(dict, "reject_sigma_high", Num("float", 30))),
     stack_32bit |-> bool(Get(dict, "stack_32bit", FALSE)),
     pack_sequences_mode |->
        LET m == Get(dict, "pack_sequences_mode", "") IN Lower(IF m = "" THEN "off" ELSE m),
     pack_threshold |-> int(Get(dict, "pack_threshold", Num("int", 20000))),
     sessions |->
        LET ss == Get(dict, "sessions", <<>>) IN [k \in 1..Len(ss) |-> Session_from_dict(ss[k])]]

\* the projects that are serialised: the options vary with the sessions
\* fixed, and the sessions vary with the options fixed
NumProject ==
    [Project EXCEPT !.drizzle_scaling = Num("float", 10),
                    !.drizzle_pixfrac = Num("float", 10),
                    !.reject_sigma_low = Num("float", 30),
                    !.reject_sigma_high = Num("float", 30),
                    !.pack_threshold = Num("int", 20000)]

OptionProjects ==
    {[NumProject EXCEPT !.working_dir = WorkingDir,
                        !.use_master_library = lib, !.drizzle_enabled = dz,
                        !.drizzle_scaling = sc, !.drizzle_kernel = kn,
                        !.two_pass = tp, !.compress_intermediates = cz,
                        !.stack_32bit = cz, !.stack_method = sm,
                        !.reject_sigma_low = lo, !.pack_sequences_mode = m,
                        !.pack_threshold = th,
                        !.sessions = <<PlainSession(1, <<"f1.fit">>, <<>>)>>]
       : lib \in BOOLEAN, dz \in BOOLEAN, tp \in BOOLEAN, cz \in BOOLEAN,
         sc \in {Num("float", 10), Num("float", 15)}, kn \in {"square", "lanczos3"},
         sm \in {"rej", "mean"}, lo \in {Num("float", 25), Num("int", 20)},
         m \in {"off", "fitseq", "ser", "auto", "Auto", ""},
         th \in {Num("int", 20000), Num("int", 10), Num("float", 20007)}}

SubdirSessions ==
    {<<Session(SessionName(1), <<"f1.fit">>, <<>>, <<>>, <<>>, <<>>, None, None, None, None, sub)>>
       : sub \in WorkSubdirs}

SessionProjects ==
    {[NumProject EXCEPT !.sessions = ss] : ss \in CalSessions \cup SubdirSessions \cup {<<>>}}

DictProjects == OptionProjects \cup SessionProjects

\* json.dump(self.project.to_dict(), ...)
Save ==
    /\ doc = "model"
    /\ saved' = to_dict(p)
    /\ doc' = "saved"
    /\ UNCHANGED <<p, buildVars, runVars, loaded, editVars>>

\* Project.from_dict(json.loads(...))
Load ==
    /\ doc = "saved"
    /\ loaded' = from_dict(saved)
    /\ doc' = "loaded"
    /\ UNCHANGED <<p, buildVars, runVars, saved, editVars>>

InitDict ==
    /\ \E pr \in DictProjects : Widget({pr}, NoProgress, TRUE)
    /\ Desk

NextDict == Save \/ Load

SpecDict == InitDict /\ [][NextDict]_vars

(***************************************************************************)
(* C28: for every valid project, Project.from_dict(Project.to_dict(p))     *)
(* equals p in every field: the options, the session list in its order,    *)
(* and every session's frame lists and master overrides.  Numbers are      *)
(* compared as Python compares them, by value.                             *)
(***************************************************************************)
NumFields ==
    {"drizzle_scaling", "drizzle_pixfrac", "reject_sigma_low", "reject_sigma_high",
     "pack_threshold"}

SameFields(a, b) ==
    /\ DOMAIN a = DOMAIN b
    /\ \A k \in DOMAIN a \ NumFields : a[k] = b[k]
    /\ \A k \in NumFields : a[k].tenths = b[k].tenths

\* the packing mode is one of the four the form offers and the threshold is
\* a whole number
Valid(pr) ==
    /\ pr.pack_sequences_mode \in {"off", "fitseq", "ser", "auto"}
    /\ pr.pack_threshold.tenths % 10 = 0

C28_RoundTrip == (doc = "loaded" /\ Valid(p)) => SameFields(loaded, p)

\* a project with two different sessions and a master override was loaded
C28_Witness ==
    /\ doc = "loaded" /\ Valid(p)
    /\ Len(p.sessions) = 2 /\ p.sessions[1] # p.sessions[2]
    /\ \E k \in 1..2 : Truthy(p.sessions[k].master_flat)

\* the options away from their defaults
C28_WitnessOptions ==
    /\ doc = "loaded" /\ Valid(p)
    /\ ~p.use_master_library /\ p.drizzle_enabled /\ p.two_pass
    /\ p.compress_intermediates /\ p.stack_32bit /\ p.stack_method = "mean"
    /\ p.pack_sequences_mode = "auto" /\ p.pack_threshold.tenths = 10
    /\ p.reject_sigma_low.type = "int"

\* outside the valid projects the round trip changes the packing mode or
\* the threshold
InvalidChanged == doc = "loaded" /\ ~Valid(p) /\ ~SameFields(loaded, p)

(***************************************************************************)
(* The session list and the session editor of ProjectWidget.  A handler    *)
(* runs to its end in the GUI thread; the signals a widget emits while it  *)
(* is set are delivered at once, inside the handler.  The handlers are     *)
(* operators on the state they work on: the model's sessions, the widgets  *)
(* of the editor, the current row and the _loading_session flag.           *)
(***************************************************************************)
\* assigned: the rows of project.sessions the handler has assigned so far
EditorState(ss, e, row, loading) == [sessions |-> ss, ed |-> e, row |-> row, loading |-> loading, assigned |-> {}]

\* str.strip() on the texts typed into the name field
strip(text) == IF text = " " THEN "" ELSE text

\* SessionEditor.to_session
to_session(e) ==
    Session(IF strip(e.name) = "" THEN "Session" ELSE strip(e.name),
            e.lights, e.bias, e.darks, e.flats, e.dark_flats,
            e.master_bias, e.master_dark, e.master_flat, e.master_dark_flat,
            e.work_subdir)

\* update_current_session without its first line
update_current_session_unguarded(st) ==
    IF 0 <= st.row /\ st.row < Len(st.sessions)
    THEN [st EXCEPT !.sessions[st.row + 1] = to_session(st.ed), !.assigned = @ \cup {st.row}]
    ELSE st

\* ProjectWidget.update_current_session, the slot of SessionEditor.changed
update_current_session(st) ==
    IF st.loading THEN st
    ELSE IF 0 <= st.row /\ st.row < Len(st.sessions)
    THEN [st EXCEPT !.sessions[st.row + 1] = to_session(st.ed), !.assigned = @ \cup {st.row}]
    ELSE st

\* a widget of the editor is set: textChanged, rowsRemoved or rowsInserted
\* is emitted when its content changes, and with it SessionEditor.changed
SetWidget(st, f, v) ==
    IF st.ed[f] = v THEN st ELSE update_current_session([st EXCEPT !.ed[f] = v])

\* the widgets from_session sets, in its order; a list is cleared, then filled
LoadSteps(s) ==
    <<<<"name", s.name>>, <<"work_subdir", s.work_subdir>>,
      <<"lights", <<>>>>, <<"lights", s.lights>>,
      <<"bias", <<>>>>, <<"bias", s.bias>>,
      <<"darks", <<>>>>, <<"darks", s.darks>>,
      <<"flats", <<>>>>, <<"flats", s.flats>>,
      <<"dark_flats", <<>>>>, <<"dark_flats", s.dark_flats>>,
      <<"master_bias", s.master_bias>>, <<"master_dark", s.master_dark>>,
      <<"master_flat", s.master_flat>>, <<"master_dark_flat", s.master_dark_flat>>>>

RECURSIVE SetWidgets(_, _)
SetWidgets(st, steps) ==
    IF steps = <<>> THEN st
    ELSE SetWidgets(SetWidget(st, Head(steps)[1], Head(steps)[2]), Tail(steps))

\* SessionEditor.from_session
from_session(st, s) == SetWidgets(st, LoadSteps(s))

\* self._loading_session = True; try: from_session(s); finally: ... = False
LoadGuarded(st, s) ==
    [from_session([st EXCEPT !.loading = TRUE], s) EXCEPT !.loading = FALSE]

\* ProjectWidget.load_selected_session, the slot of currentRowChanged
load_selected_session(st, row) ==
    IF 0 <= row /\ row < Len(st.sessions)
    THEN LoadGuarded(st, st.sessions[row + 1])
    ELSE st

\* sessions_list.setCurrentRow(row): currentRowChanged when the row changes
setCurrentRow(st, row) ==
    IF st.row = row THEN st ELSE load_selected_session([st EXCEPT !.row = row], row)

Insert(seq, k, x) == SubSeq(seq, 1, k) \o <<x>> \o SubSeq(seq, k + 1, Len(seq))

Remove(seq, k) == SubSeq(seq, 1, k - 1) \o SubSeq(seq, k + 1, Len(seq))

Now == EditorState(p.sessions, ed, currentRow, _loading_session)

\* the handler has run: its state is the widget's
Becomes(st) ==
    /\ p' = [p EXCEPT !.sessions = st.sessions]
    /\ ed' = st.ed
    /\ currentRow' = st.row
    /\ _loading_session' = st.loading
    /\ assigned' = st.assigned
    /\ UNCHANGED <<buildVars, runVars, docVars>>

\* the user selects another row of the session list
SelectRow ==
    \E row \in 0..(Len(p.sessions) - 1) :
        /\ row # currentRow
        /\ Becomes(setCurrentRow(Now, row))

\* what the user does in the editor: a name, Add on a list, a picked master
Edits ==
    {<<"name", " ">>, <<"lights", <<"a.fit">>>>, <<"flats", <<"b.fit">>>>,
     <<"master_dark", <<"lib", ".", "dark.fit">>>>}

EditWidget == \E e \in Edits : Becomes(SetWidget(Now, e[1], e[2]))

add_session ==
    /\ Len(p.sessions) < MaxSessions
    /\ LET new_sess == Session("Session " \o ToString(Len(p.sessions) + 1), <<>>, <<>>,
                               <<>>, <<>>, <<>>, None, None, None, None, None)
           st1 == [Now EXCEPT !.sessions = Append(@, new_sess)]
           st2 == setCurrentRow(st1, Len(st1.sessions) - 1)
       IN  Becomes(LoadGuarded(st2, new_sess))

\* the names sessions have before they are duplicated
BaseNames == {"Session " \o ToString(k) : k \in 1..MaxSessions} \cup {"Session", "m31", "m33"}

\* Duplicate; a copy is not copied again, which keeps the names finite
duplicate_session ==
    /\ Len(p.sessions) < MaxSessions
    /\ currentRow >= 0
    /\ p.sessions[currentRow + 1].name \in BaseNames
    /\ LET row == currentRow
           orig == p.sessions[row + 1]
           copy == [Session_from_dict(Session_to_dict(orig)) EXCEPT !.name = orig.name \o " (copy)"]
           st1 == [Now EXCEPT !.sessions = Insert(@, row + 1, copy)]
           st2 == setCurrentRow(st1, row + 1)
       IN  Becomes(LoadGuarded(st2, copy))

\* Remove Session, answered Yes.  takeItem makes a neighbour the current
\* item; which row currentRowChanged reports then is Qt's choice.
remove_session ==
    /\ currentRow >= 0
    /\ LET st1 == [Now EXCEPT !.sessions = Remove(@, currentRow + 1)]
       IN  \E reported \in (-1)..Len(st1.sessions) :
              LET st2 == load_selected_session([st1 EXCEPT !.row = IF reported < Len(st1.sessions) THEN reported ELSE Len(st1.sessions) - 1], reported)
              IN  IF st2.sessions # <<>>
                  THEN Becomes(LoadGuarded(setCurrentRow(st2, 0), st2.sessions[1]))
                  ELSE Becomes(st2)

\* the widget after refresh_from_model: a new project with its one session,
\* or an opened project with two; row 0 is selected and loaded
EditSessions ==
    {<<Session("Session 1", <<>>, <<>>, <<>>, <<>>, <<>>, None, None, None, None, None)>>,
     <<Session("m31", <<"f1.fit">>, <<>>, <<>>, <<"f2.fit">>, <<>>, None, None, <<"lib", ".", "flat.fit">>, None, None),
       Session("m33", <<"f3.fit">>, <<"f4.fit">>, <<>>, <<>>, <<>>, <<"lib", ".", "bias.fit">>, None, None, None, <<"night2">>)>>}

InitEdit ==
    /\ \E ss \in EditSessions :
          /\ Widget({[Project EXCEPT !.working_dir = WorkingDir, !.sessions = ss]}, NoProgress, TRUE)
          /\ ed = load_selected_session(EditorState(ss, EmptyEditor, 0, FALSE), 0).ed
    /\ currentRow = 0
    /\ _loading_session = FALSE
    /\ assigned = {}
    /\ doc = "model" /\ saved = <<>> /\ loaded = Project

NextEdit == SelectRow \/ EditWidget \/ add_session \/ duplicate_session \/ remove_session

SpecEdit == InitEdit /\ [][NextEdit]_vars

(***************************************************************************)
(* C29: a step that makes another row the current one (a selection, Add    *)
(* Session, Duplicate, or the selection that follows a removal) writes to  *)
(* no session of the model: update_current_session assigns no row during   *)
(* it, and the sessions stored before are stored unchanged after it, but   *)
(* for the one that was added or removed.                                  *)
(***************************************************************************)
Kept(old, new) ==
    \/ new = old
    \/ \E k \in 1..Len(new) : Remove(new, k) = old
    \/ \E k \in 1..Len(old) : Remove(old, k) = new

C29_SwitchWritesNothing ==
    [][(currentRow' # currentRow) => (assigned' = {} /\ Kept(p.sessions, p'.sessions))]_vars

\* the editor shows the session of the current row and no other
EditorShowsCurrent ==
    /\ ~_loading_session
    /\ (0 <= currentRow /\ currentRow < Len(p.sessions)) =>
           to_session(ed) = p.sessions[currentRow + 1]

\* the user edited the first session, added a second, edited it, and went
\* back to the first row
C29_Witness ==
    /\ Len(p.sessions) = 2 /\ currentRow = 0
    /\ p.sessions[1].name = "Session 1" /\ p.sessions[2].name = "Session 2"
    /\ p.sessions[1].flats = <<"b.fit">> /\ p.sessions[1].lights = <<>>
    /\ p.sessions[2].lights = <<"a.fit">> /\ p.sessions[2].flats = <<>>
    /\ ed.flats = <<"b.fit">>

(***************************************************************************)
(* C30: in every script with a global stage the final stack directive is   *)
(* followed by load, mirrorx and save, in this order and once each; the    *)
(* load names final_stacked.fit.fz exactly when the tracked compression    *)
(* state was 1 when the final stack directive was emitted, and             *)
(* final_stacked.fit otherwise; the tracked state is 0 when the save       *)
(* directive is emitted.  The tracked state is comp_state, which is what   *)
(* the last setcompress directive of the script requested.                 *)
(***************************************************************************)
HasGlobalStage == \E j \in Lines : IsFinalStack(L[j])

LoadTarget(state) == IF state = "1" THEN <<"final_stacked.fit.fz">> ELSE <<"final_stacked.fit">>

C30_FinalizeSequence ==
    /\ (pc = "finalize") =>
           /\ IsFinalStack(L[Len(L)])
           /\ LastComp(Len(L)) = ToString(comp_state)
    /\ (pc \in {"footer", "done"} /\ HasGlobalStage) =>
           \E s \in {j \in Lines : IsFinalStack(L[j])} : \E ld \in OpIdx("load") :
           \E m \in OpIdx("mirrorx") : \E sv \in OpIdx("save") :
               /\ OpIdx("load") = {ld} /\ OpIdx("mirrorx") = {m} /\ OpIdx("save") = {sv}
               /\ DirectlyFollows(s, ld) /\ DirectlyFollows(ld, m) /\ DirectlyFollows(m, sv)
               /\ L[ld].args = <<LoadTarget(LastComp(s))>>
               /\ LastComp(sv) = "0"
               /\ (pc = "footer" => comp_state = 0)

\* a finished drizzle script of a compressing project: the compressed
\* artifact is loaded, and uncompressed again before the save
C30_Witness ==
    /\ pc = "done"
    /\ p.compress_intermediates /\ p.drizzle_enabled
    /\ \E ld \in OpIdx("load") :
          /\ L[ld].args = <<<<"final_stacked.fit.fz">>>>
          /\ L[ld + 1].op = "setcompress"

\* a finished script of a project that does not compress
C30_WitnessUncompressed ==
    /\ pc = "done"
    /\ ~p.compress_intermediates
    /\ \E ld \in OpIdx("load") : L[ld].args = <<<<"final_stacked.fit">>>>

(***************************************************************************)
(* C31: in the segment of a session the stacks that produce bias_stacked   *)
(* and df_stacked precede the flat build step; every session-built master  *)
(* (bias_stacked, df_stacked, dark_stacked, pp_flat_stacked) named by a     *)
(* calibrate directive of the segment is the output of a stack directive   *)
(* earlier in the segment; and all these stacks precede the segment's      *)
(* light conversion and light calibration.                                 *)
(***************************************************************************)
SessionBuilt == {"bias_stacked", "df_stacked", "dark_stacked", "pp_flat_stacked"}

\* the stack directives of the segment that write the master `out`
StackOut(out) ==
    {j \in SegLines : L[j].op = "stack" /\ HasOpt(L[j], "out") /\ OptVal(L[j], "out") = <<out>>}

\* the session-built masters calibrate directive c names
Referenced(c) ==
    {m \in SessionBuilt : \E k \in 1..Len(L[c].opts) : L[c].opts[k][2] = <<m>>}

ConvertOf(seq_name) == {j \in SegLines : L[j].op = "convert" /\ L[j].args = <<<<seq_name>>>>}

C31_MastersBeforeUse ==
    JustDone =>
       /\ \A s \in StackOut("bias_stacked") \cup StackOut("df_stacked") :
             \A f \in ConvertOf("flat") \cup Calibrate("flat") : s < f
       /\ \A c \in Calibrate("flat") \cup Calibrate("light") :
             \A m \in Referenced(c) : \E s \in StackOut(m) : s < c
       /\ \A m \in SessionBuilt : \A s \in StackOut(m) :
             \A l \in ConvertOf("light") \cup Calibrate("light") : s < l
       /\ Cardinality(ConvertOf("light")) = 1 /\ Cardinality(Calibrate("light")) = 1

\* a session with raw frames of every kind: all four masters are built and
\* named, the flat by the light calibration, the dark-flat by the flat's
C31_Witness ==
    /\ JustDone
    /\ Truthy(done.bias) /\ Truthy(done.dark_flats) /\ Truthy(done.darks) /\ Truthy(done.flats)
    /\ \A m \in SessionBuilt : StackOut(m) # {}
    /\ \E c \in Calibrate("light") : Referenced(c) = {"dark_stacked", "pp_flat_stacked"}
    /\ \E c \in Calibrate("flat") : Referenced(c) = {"df_stacked"}

\* a session that builds its bias master and subtracts it from the flats
C31_WitnessBias ==
    /\ JustDone
    /\ \E c \in Calibrate("flat") : Referenced(c) = {"bias_stacked"}

(***************************************************************************)
(* The escalation handlers of an abort, _escalate_abort and _kill_abort.   *)
(* Nothing in the file calls or schedules _escalate_abort: under SpecRun   *)
(* the two handlers never run.  SpecEscalate delivers _escalate_abort as   *)
(* an event of the GUI thread after a confirmed abort, as a timer started  *)
(* by the abort would, and _kill_abort by the single-shot timer that       *)
(* _escalate_abort starts.  poll() and the signal that follows it are two  *)
(* calls of the GUI thread; the process is another process and may exit    *)
(* between them.  esc is the pending step of the escalation, stale records *)
(* a terminate() or kill() called for a process that had exited.           *)
(***************************************************************************)
\* _escalate_abort up to the test of poll()
_escalate_abort ==
    /\ gui = "idle" /\ cancelled /\ esc = "none"
    /\ IF _proc /\ proc = "running"
       THEN gui' = "_escalate_abort" /\ esc' = "none"
       ELSE gui' = gui /\ esc' = "done"
    /\ UNCHANGED <<builderVars, procVars, widgetVars, readerVars, queue, idx, historyVars,
                   envVars, dirtyVars, reportVars, throttleVars, strayVars, logVars, late_read, updates, stale, age>>

\* self._proc.terminate(); QTimer.singleShot(800, self._kill_abort).  When
\* terminate raises, _kill_abort is called at once: it follows in both cases.
EscalateTerminate ==
    /\ gui = "_escalate_abort"
    /\ stale' = (stale \/ proc = "exited")
    /\ signalled' = (signalled \/ proc = "running")
    /\ \E honoured \in BOOLEAN : ignores' = (ignores /\ ~honoured)
    /\ esc' = "timer"
    /\ gui' = "idle"
    /\ UNCHANGED <<builderVars, proc, written, stdout, returncode, widgetVars, readerVars,
                   queue, idx, historyVars, envVars, dirtyVars, reportVars, throttleVars, strayVars, logVars,
                   late_read, updates, age>>

\* the end of _kill_abort: the widget is idle again, "Processing aborted."
KillCleanup ==
    /\ _proc' = FALSE
    /\ progress' = (IF connected THEN <<"reset", 0>> ELSE progress)
    /\ IdleButtons
    /\ report' = Box("information", "Processing aborted.")
    /\ esc' = "done"
    /\ UNCHANGED <<builderVars, ignores, signalled, written, stdout, _reader, runs,
                   readerVars, queue, idx, historyVars, envVars, dirtyVars, viewer, artifact,
                   throttleVars, strayVars, logVars, late_read, updates, age>>

\* _kill_abort up to the test of poll(); a process that has exited is not killed
_kill_abort ==
    /\ gui = "idle" /\ esc = "timer"
    /\ IF ~_proc
       THEN /\ esc' = "done"
            /\ UNCHANGED <<builderVars, procVars, widgetVars, readerVars, guiVars, historyVars,
                           envVars, dirtyVars, reportVars, throttleVars, strayVars, logVars, late_read, updates,
                           stale, age>>
       ELSE IF proc = "running"
       THEN /\ gui' = "_kill_abort"
            /\ UNCHANGED <<builderVars, procVars, widgetVars, readerVars, queue, idx,
                           historyVars, restVars>>
       ELSE /\ KillCleanup
            /\ UNCHANGED <<proc, returncode, gui, stale>>

\* self._proc.kill() and the rest of _kill_abort
KillAbortKill ==
    /\ gui = "_kill_abort"
    /\ stale' = (stale \/ proc = "exited")
    /\ proc' = "exited"
    /\ returncode' = (IF proc = "running" THEN "-9" ELSE returncode)
    /\ gui' = "idle"
    /\ KillCleanup

NextEscalate ==
    \/ NextRun
    \/ _escalate_abort
    \/ EscalateTerminate
    \/ _kill_abort
    \/ KillAbortKill

\* the escalation is followed through the last run the model follows
InitEscalate == WidgetAfter(Empty, NoProgress, TRUE, MaxRuns - 1) /\ Desk

SpecEscalate == InitEscalate /\ [][NextEscalate]_vars

EscalationPollsFirst ==
    [][(gui = "idle" /\ gui' \in {"_escalate_abort", "_kill_abort"}) => proc = "running"]_vars

\* under SpecRun the escalation never starts
EscalationNeverRuns == esc = "none" /\ ~stale

(***************************************************************************)
(* Time and the reader.  The steps of the reader take no time; time        *)
(* passes while the reader is blocked in readline() and the process, still *)
(* running, has nothing for it to read.  age is the number of whole flush  *)
(* intervals (120 ms) that have passed since the oldest pending line was   *)
(* read.                                                                   *)
(***************************************************************************)
MaxAge == 2

Blocked == rd = "reading" /\ stdout = <<>> /\ proc = "running"

\* a flush interval passes while lines are pending
Tick ==
    /\ Blocked
    /\ buf # <<>>
    /\ age < MaxAge
    /\ age' = age + 1
    /\ UNCHANGED <<builderVars, envVars, dirtyVars, reportVars, throttleVars, strayVars, logVars, late_read,
                   updates, escVars, procVars, widgetVars, readerVars, guiVars, historyVars>>

NextBatch == NextRun \/ Tick

InitBatch == WidgetAfter(Empty, NoProgress, TRUE, MaxRuns - 1) /\ Desk

SpecBatch == InitBatch /\ [][NextBatch]_vars

(***************************************************************************)
(* C33: a pending batch never holds more than 128 lines, and a line that   *)
(* has been read does not stay unflushed for longer than the flush         *)
(* interval of 120 ms.                                                     *)
(***************************************************************************)
C33_PendingBounded ==
    /\ Len(buf) <= BatchLimit
    /\ buf # <<>> => age <= 1

\* the half that holds: the batch is flushed as soon as a line is appended
\* to it while it holds the limit or its oldest line is an interval old
FlushedAtNextLine ==
    [][(rd = "batch" /\ rd' # "batch" /\ (age >= 1 \/ Len(buf) >= BatchLimit))
          => rd' = "flush_emit"]_vars

(***************************************************************************)
(* C34: during a run the log file is only appended to, never truncated,    *)
(* so what was written to it before a cancel is still in it afterwards,    *)
(* followed by what is written later; and the file is opened once per run. *)
(***************************************************************************)
AppendOnly == [][runs' = runs => IsPrefix(lf, lf')]_vars

C34_AppendOnlyOpenedOnce == AppendOnly /\ [](opens <= 1)

\* a cancelled run that is over: the lines logged before the cancel and the
\* lines flushed after it are in the file, which was opened four times
C34_CancelledLogKept ==
    /\ cancelled /\ RunOver
    /\ Len(lf) >= 2 /\ lf = read
    /\ opens = 4 /\ footer = Len(lf)

(***************************************************************************)
(* C35: on_finished runs at most once for a run, and when it runs the      *)
(* process has exited, the reader is done, no batch of the run is still    *)
(* queued and none is being handled, and every line the reader read is in  *)
(* the log file, where the footer follows it; the header is written to the *)
(* new log file before the process is started; and once the process of a   *)
(* run has exited on_finished does run, for an aborted run as for any.     *)
(***************************************************************************)
Finishes == footer' # footer /\ runs' = runs

Starts == runs' = runs + 1

Queued(event) == \E k \in 1..Len(queue) : queue[k] = event

C35_NotifiedOnceInOrder ==
    /\ [][Finishes =>
             /\ footer = -1 /\ _proc
             /\ proc = "exited" /\ rd = "done"
             /\ ~Queued("got_lines") /\ gui = "idle"
             /\ buf = <<>> \/ cancelled
             /\ lf = read /\ footer' = Len(read)
             /\ ~_proc']_vars
    /\ [][Starts => (lf' = <<>> /\ opens' = 1 /\ written' = 0 /\ footer' = -1)]_vars
    /\ ((_proc /\ proc = "exited") ~> ~_proc)

\* an aborted run is over: its footer follows the lines read before and
\* after the abort
C35_Witness ==
    /\ cancelled /\ RunOver
    /\ footer = Len(lf) /\ lf = read /\ Len(read) >= 1
    /\ proc = "exited" /\ rd = "done" /\ queue = <<>>

\* a run that was not aborted is over
C35_WitnessCompleted ==
    /\ ~cancelled /\ RunOver
    /\ footer = Len(lf) /\ Len(lf) = MaxLines /\ Len(sent) >= 2

(***************************************************************************)
(* C36: the file the final save directive of the script writes, its        *)
(* relative path resolved from the directory that is current at the        *)
(* directive, is the file on_finished looks for after exit code 0,         *)
(* <working_dir>/<slug>_final.fit.                                         *)
(***************************************************************************)
\* final_path of on_finished
final_path(proj) == Normalize(Append(proj.working_dir, safe_slug(proj.name) \o "_final.fit"))

\* the file save directive sv writes
SaveTarget(sv) == ChDir(CwdAfter(sv), L[sv].args[1])

C36_SavedWhereLookedFor ==
    pc = "done" => \A sv \in OpIdx("save") : SaveTarget(sv) = final_path(p)

\* what holds: the two are the same file when the first session's root is a
\* directory directly under the working directory
SavedWhereLookedForFlat ==
    (pc = "done" /\ Len(p.sessions) >= 1
       /\ Depth(SessRoot(p, p.sessions[1])) = 1) =>
          \A sv \in OpIdx("save") : SaveTarget(sv) = final_path(p)

SavedFlatReached ==
    /\ pc = "done" /\ OpIdx("save") # {}
    /\ p.sessions[1].work_subdir = <<"night1">>
    /\ \A sv \in OpIdx("save") : SaveTarget(sv) = final_path(p)

(***************************************************************************)
(* The unsaved-changes flag.  _dirty is the flag of ProjectWidget,         *)
(* was_dirty the value run_siril captured for its on_finished, and unsaved *)
(* records that the form was edited after the last save.  The Save action  *)
(* of the window stays enabled during a run.  The file dialog of run_siril *)
(* that fills in the siril-cli path is an edit of the form (EditForm)      *)
(* before the launch.                                                      *)
(***************************************************************************)
\* a widget of the form is changed: mark_dirty
EditForm ==
    /\ gui = "idle"
    /\ ~(_dirty /\ unsaved)
    /\ _dirty' = TRUE
    /\ unsaved' = TRUE
    /\ UNCHANGED <<builderVars, procVars, widgetVars, readerVars, guiVars, historyVars,
                   envVars, was_dirty, reportVars, throttleVars, strayVars, logVars, auditVars>>

\* save_project: the file is written, or the write fails
save_project ==
    /\ gui = "idle"
    /\ \E written_ok \in BOOLEAN :
          IF written_ok
          THEN /\ _dirty' = FALSE /\ unsaved' = FALSE
               /\ report' = NoBox
          ELSE /\ UNCHANGED <<_dirty, unsaved>>
               /\ report' = Box("critical", "Save Project")
    /\ UNCHANGED <<builderVars, procVars, widgetVars, readerVars, guiVars, historyVars,
                   envVars, was_dirty, viewer, artifact, progress, throttleVars, strayVars,
                   logVars, auditVars>>

\* build_script: was_dirty = self._dirty ... finally: self._dirty = was_dirty
build_script ==
    /\ gui = "idle" /\ btn_build_script
    /\ \E built \in BOOLEAN :
          report' = (IF built /\ Truthy(p.working_dir)
                     THEN Box("information", "Script written to")
                     ELSE Box("critical", "Failed to build"))
    /\ _dirty' = _dirty
    /\ UNCHANGED <<builderVars, procVars, widgetVars, readerVars, guiVars, historyVars,
                   envVars, was_dirty, unsaved, viewer, artifact, progress, throttleVars,
                   strayVars, logVars, auditVars>>

NextDirty == NextRun \/ EditForm \/ save_project \/ build_script

InitDirty == WidgetAfter(Empty, NoProgress, TRUE, MaxRuns - 1) /\ Desk

SpecDirty == InitDirty /\ [][NextDirty]_vars

(***************************************************************************)
(* C37: after build_script has returned and after on_finished has          *)
(* completed the unsaved-changes flag is set exactly when the form has     *)
(* edits that were not saved.                                              *)
(***************************************************************************)
Builds ==
    /\ report' # report
    /\ report' \in {Box("information", "Script written to"), Box("critical", "Failed to build")}

C37_FlagTellsUnsaved ==
    [][(Builds \/ Finishes) => (_dirty' <=> unsaved')]_vars

\* what holds: build_script leaves the flag as it finds it, on_finished
\* never clears it, and the flag is set whenever there are unsaved edits
FlagKept ==
    /\ [][Builds => (_dirty' = _dirty)]_vars
    /\ [][Finishes => (_dirty => _dirty')]_vars
    /\ [](unsaved => _dirty)

\* the flag is set although everything was saved during the run
FlagSetAfterSave == RunOver /\ _dirty /\ ~unsaved

(***************************************************************************)
(* C38: in the single-session drizzle fast path the flat argument of the   *)
(* register directive names the flat master that the session's light       *)
(* calibration divides by, and the register has no flat argument exactly   *)
(* when the light calibration has no flat term.                            *)
(***************************************************************************)
CalibrateLight == {j \in Lines : L[j].op = "calibrate" /\ L[j].args = <<<<"light">>>>}

DrizzleRegister == {j \in OpIdx("register") : HasOpt(L[j], "drizzle")}

C38_WeightingFlatIsLightFlat ==
    (Len(p.sessions) = 1 /\ FastPath(p)) =>
       \A r \in OpIdx("register") :
          /\ r \in DrizzleRegister
          /\ Cardinality(CalibrateLight) = 1
          /\ \A c \in CalibrateLight :
                /\ c < r
                /\ FlatArgs(L[r]) = FlatArgs(L[c])
                /\ Cardinality(FlatArgs(L[c])) <= 1

\* a session with raw flats and a per-session flat master: both directives
\* name the flat built from the raw flats
C38_Witness ==
    /\ pc = "done" /\ Len(p.sessions) = 1 /\ FastPath(p)
    /\ Truthy(p.sessions[1].flats) /\ Truthy(p.sessions[1].master_flat)
    /\ \E r \in DrizzleRegister : \E c \in CalibrateLight :
          FlatArgs(L[r]) = {<<"pp_flat_stacked">>} /\ FlatArgs(L[c]) = {<<"pp_flat_stacked">>}

\* neither directive has a flat term
C38_WitnessAbsent ==
    /\ pc = "done" /\ Len(p.sessions) = 1 /\ FastPath(p)
    /\ \E r \in DrizzleRegister : \E c \in CalibrateLight :
          FlatArgs(L[r]) = {} /\ FlatArgs(L[c]) = {}

\* both name the per-session master
C38_WitnessOverride ==
    /\ pc = "done" /\ Len(p.sessions) = 1 /\ FastPath(p)
    /\ \E r \in DrizzleRegister : \E c \in CalibrateLight : \E t \in FlatArgs(L[r]) :
          FlatArgs(L[c]) = {t} /\ SamePath(t, p.sessions[1].master_flat)

(***************************************************************************)
(* Loading a document that lacks one key, as a project file written by an  *)
(* earlier version or edited by hand does.  doc then names the key.        *)
(***************************************************************************)
Omit(dict, key) == [k \in DOMAIN dict \ {key} |-> dict[k]]

\* Project.from_dict(json.loads(...)) of a document without `key`
LoadOmitting ==
    /\ doc = "saved"
    /\ \E key \in DOMAIN saved :
          /\ loaded' = from_dict(Omit(saved, key))
          /\ doc' = key
    /\ UNCHANGED <<p, buildVars, runVars, saved, editVars>>

NextOmit == Save \/ Load \/ LoadOmitting

SpecOmit == InitDict /\ [][NextOmit]_vars

\* the value of a field, numbers by their value
FieldValue(pr, k) == IF k \in NumFields THEN pr[k].tenths ELSE pr[k]

(***************************************************************************)
(* C39: for every Project field, from_dict of a document that omits the    *)
(* field yields the value a freshly constructed Project has for it.        *)
(***************************************************************************)
C39_MissingKeyIsDefault ==
    doc \in DOMAIN Project => FieldValue(loaded, doc) = FieldValue(NumProject, doc)

\* what holds: every field but two_pass loads as the default of the class,
\* two_pass loads as True, and the fields that are present load as saved
MissingKeyIsDefaultButTwoPass ==
    doc \in DOMAIN Project =>
       /\ doc # "two_pass" => FieldValue(loaded, doc) = FieldValue(NumProject, doc)
       /\ doc = "two_pass" => loaded.two_pass = TRUE /\ NumProject.two_pass = FALSE
       /\ DOMAIN loaded = DOMAIN Project
       /\ Valid(p) => \A k \in DOMAIN Project \ {doc} : FieldValue(loaded, k) = FieldValue(p, k)

\* a project with two-pass registration off saved without the key loads with it on
TwoPassTurnedOn == doc = "two_pass" /\ ~p.two_pass /\ loaded.two_pass

\* a missing session list loads as the empty list although the project had sessions
SessionsDefaulted == doc = "sessions" /\ p.sessions # <<>> /\ loaded.sessions = <<>>

====
